---------------------------- MODULE Spec2Model ----------------------------
(***************************************************************************)
(* Brain Synapse (kiddbin/brain_synapse): the synapse store (hot and       *)
(* latent weight files), the distillation and recall pipelines of          *)
(* skill.js and the Observer of observer.js with its lock file.            *)
(*                                                                         *)
(* Conventions.                                                            *)
(*  - A JS string is a sequence of one-character strings, so that          *)
(*    String.includes and toLowerCase are computed, not assumed.           *)
(*  - A JS object is a function whose DOMAIN is the set of its own         *)
(*    properties; an absent property is absent from the DOMAIN.            *)
(*  - A weight is a fixed-point number: WeightUnit stands for 1.0 and a    *)
(*    product is truncated to 1/WeightUnit.                                *)
(*  - Date.now() is the variable now; every read inside one command        *)
(*    returns the same value and Tick lets time pass between commands.     *)
(*    A dated log "YYYY-MM-DD.md" is named by its day number, and the      *)
(*    day of "today" is now.                                               *)
(***************************************************************************)
EXTENDS Integers, Sequences, FiniteSets, TLC

VARIABLES
    weights,        \* synapse_weights.json: key -> synapse record
    latentWeights,  \* latent_weights.json: key -> latent record
    activeLogs,     \* workspace/memory: day -> log content
    archive,        \* workspace/memory/archive: day -> log content
    observations,   \* observations.jsonl: sequence of observation records
    obsSeq,         \* number of observation ids handed out so far
    now,            \* the clock (Date.now())
    lastOp,         \* the last command and its arguments
    result,         \* what the last command returned or threw
    nSteps,         \* commands and events so far
    lockFile,       \* .observer.lock exists
    pc,             \* position of each concurrent process
    cmd,            \* the command each concurrent process runs
    mem,            \* this.weights / the local weights of each process
    memLatent,      \* this.latentWeights of each process
    attempts,       \* acquireLock: existence checks made by each process
    holding,        \* acquireLock returned true and releaseLock has not run
    trace,          \* per process: what happened during its call
    call            \* the recall in progress: its promises and its timer

vars == <<weights, latentWeights, activeLogs, archive, observations, obsSeq,
          now, lastOp, result, nSteps, lockFile, pc, cmd, mem, memLatent,
          attempts, holding, trace, call>>

lockVars == <<lockFile, pc, cmd, mem, memLatent, attempts, holding, trace>>

----------------------------------------------------------------------------
(* Bounds of the model *)

MaxSteps == 4
MaxClock == 1
MaxObs == 6
AgeCycles == 14
RecalledTimes == 3
WornCycles == 5
NumProcs == 2
ForgottenCycles == 30

----------------------------------------------------------------------------
(* Numbers *)

WeightUnit == 1000000

DECAY_RATE_PCT == 90
FORGET_THRESHOLD == 200000
REVIVED_WEIGHT == 500000
LTP_INCREMENT == 100000
SPECIAL_INCREMENT == 500000
MEMORIZE_WEIGHT == 2500000
PENALTY_RATE == 100000
RECALL_THRESHOLD == 3
TOP_CONCEPTS == 5
REVIVE_LIMIT == 5
MIN_OBSERVATIONS == 5
MIN_GROUP == 3

DEFAULTKEY == <<"d", "e", "f", "a", "u", "l", "t">>
USERCORRECT == <<"u", "s", "e", "r", "-", "c", "o", "r", "r", "e", "c", "t", "-">>
ERRORRESOLVE == <<"e", "r", "r", "o", "r", "-", "r", "e", "s", "o", "l", "v", "e", "-">>
WORKFLOW == <<"w", "o", "r", "k", "f", "l", "o", "w", "-">>
TOOLPREF == <<"t", "o", "o", "l", "-", "p", "r", "e", "f", "-">>
DISTILLCOMPLETED == <<"d", "i", "s", "t", "i", "l", "l", "-", "c", "o", "m", "p", "l", "e", "t", "e", "d">>

----------------------------------------------------------------------------
(* JS strings and objects *)

UpperCase ==
    <<"A", "B", "C", "D", "E", "F", "G", "H", "I", "J", "K", "L", "M",
      "N", "O", "P", "Q", "R", "S", "T", "U", "V", "W", "X", "Y", "Z">>

LowerCase ==
    <<"a", "b", "c", "d", "e", "f", "g", "h", "i", "j", "k", "l", "m",
      "n", "o", "p", "q", "r", "s", "t", "u", "v", "w", "x", "y", "z">>

\* the lower-case letter of every upper-case letter
LowerOf ==
    [u \in {UpperCase[i] : i \in 1..Len(UpperCase)} |->
        LowerCase[CHOOSE i \in 1..Len(UpperCase) : UpperCase[i] = u]]

LowerChar(c) == IF c \in DOMAIN LowerOf THEN LowerOf[c] ELSE c

\* String.prototype.toLowerCase
ToLower(s) == [i \in 1..Len(s) |-> LowerChar(s[i])]

\* String.prototype.includes: t occurs in s
Includes(s, t) ==
    \E i \in 0..(Len(s) - Len(t)) : SubSeq(s, i + 1, i + Len(t)) = t

\* obj.f, or d when the property is absent (obj.f || d for a non-zero value)
Field(r, f, d) == IF f \in DOMAIN r THEN r[f] ELSE d

\* obj.f = v
Put(r, f, v) == [x \in DOMAIN r \cup {f} |-> IF x = f THEN v ELSE r[x]]

\* delete obj[k]
Delete(obj, k) == [x \in DOMAIN obj \ {k} |-> obj[x]]

\* JS truthiness of obj.f for a boolean property
Truthy(r, f) == f \in DOMAIN r /\ r[f] = TRUE

EmptyObj == [x \in {} |-> 0]

Keys(obj) == DOMAIN obj

----------------------------------------------------------------------------
(* applyLTD *)

Decay(w) == (w * DECAY_RATE_PCT) \div 100

\* a variant that compares the weight before the decay with the threshold
DemotedUndecayed(w) ==
    {k \in Keys(w) : ~Truthy(w[k], "pinned")
                     /\ w[k].weight < FORGET_THRESHOLD}

\* the keys applyLTD moves to latent storage
Demoted(w) ==
    {k \in Keys(w) : ~Truthy(w[k], "pinned")
                     /\ Decay(w[k].weight) < FORGET_THRESHOLD}

\* this.weights after applyLTD
ApplyLTDHot(w) ==
    [k \in Keys(w) \ Demoted(w) |->
        IF Truthy(w[k], "pinned") THEN w[k]
        ELSE Put(w[k], "weight", Decay(w[k].weight))]

\* a variant that stamps the weight before the decay as originalWeight
ApplyLTDLatentUndecayed(w, l, t) ==
    [k \in Keys(l) \cup Demoted(w) |->
        IF k \in Demoted(w)
        THEN Put(Put(Put(w[k], "weight", Decay(w[k].weight)),
                     "archivedAt", t),
                 "originalWeight", w[k].weight)
        ELSE l[k]]

\* this.latentWeights after applyLTD
ApplyLTDLatent(w, l, t) ==
    [k \in Keys(l) \cup Demoted(w) |->
        IF k \in Demoted(w)
        THEN Put(Put(Put(w[k], "weight", Decay(w[k].weight)),
                     "archivedAt", t),
                 "originalWeight", Decay(w[k].weight))
        ELSE l[k]]

----------------------------------------------------------------------------
(* distill: reinforcement of the terms and special lines of one log *)

\* a new hot record, skill.js:261-269 and 300-308
NewRecord(file, t) ==
    [weight |-> WeightUnit, lastAccess |-> t, lastSeen |-> t, firstSeen |-> t,
     count |-> 1, recall_count |-> 0, refs |-> <<file>>]

InSeq(x, s) == \E i \in 1..Len(s) : s[i] = x

\* refs.push(file) unless refs.includes(file)
AddRef(refs, file) == IF InSeq(file, refs) THEN refs ELSE Append(refs, file)

\* keywords.forEach body, skill.js:258-283
ObserveTerm(w, keyword, file, t) ==
    LET k == ToLower(keyword) IN
    IF k \notin Keys(w)
    THEN [x \in Keys(w) \cup {k} |-> IF x = k THEN NewRecord(file, t) ELSE w[x]]
    ELSE LET r  == w[k]
             c  == IF Field(r, "count", 0) = 0 THEN 1 ELSE r.count + 1
             r1 == Put(Put(Put(r, "count", c), "lastSeen", t), "lastAccess", t)
             r2 == Put(r1, "refs", AddRef(r1.refs, file))
         IN  [w EXCEPT ![k] = r2]

\* lines.forEach body for a line matching the special-concept regex,
\* skill.js:296-316; concept is the stripped, trimmed, 50-character prefix
ObserveSpecial(w, concept, file, t) ==
    LET k == ToLower(concept) IN
    IF k \notin Keys(w)
    THEN [x \in Keys(w) \cup {k} |-> IF x = k THEN NewRecord(file, t) ELSE w[x]]
    ELSE LET r  == w[k]
             r1 == Put(Put(Put(Put(r, "weight", r.weight + SPECIAL_INCREMENT),
                               "lastAccess", t), "lastSeen", t),
                       "count", Field(r, "count", 0) + 1)
             r2 == Put(r1, "refs", AddRef(r1.refs, file))
         IN  [w EXCEPT ![k] = r2]

RECURSIVE ObserveTerms(_, _, _, _)
ObserveTerms(w, terms, file, t) ==
    IF terms = <<>> THEN w
    ELSE ObserveTerms(ObserveTerm(w, Head(terms), file, t), Tail(terms), file, t)

\* the days of a set of logs in readdirSync (ascending name) order
RECURSIVE SortedDays(_)
SortedDays(S) ==
    IF S = {} THEN <<>>
    ELSE LET m == CHOOSE x \in S : \A y \in S : x <= y
         IN  <<m>> \o SortedDays(S \ {m})

\* first logs.forEach, skill.js:253-287
RECURSIVE ReinforceLogs(_, _, _, _)
ReinforceLogs(w, days, logs, t) ==
    IF days = <<>> THEN w
    ELSE ReinforceLogs(ObserveTerms(w, logs[Head(days)].terms, Head(days), t),
                       Tail(days), logs, t)

\* the ASCII keywords of the special-concept regex, skill.js:296 (the match
\* is case-insensitive, so they are kept in lower case; the four CJK
\* alternatives cannot occur in the ASCII lines of the logs modelled here)
SPECIAL_WORDS ==
    {<<"i", "m", "p", "o", "r", "t", "a", "n", "t">>,
     <<"t", "o", "d", "o">>,
     <<"d", "e", "c", "i", "s", "i", "o", "n">>,
     <<"l", "e", "s", "s", "o", "n">>,
     <<"r", "e", "m", "e", "m", "b", "e", "r">>}

\* line.match(/(IMPORTANT|TODO|...)/i), skill.js:296
IsSpecialLine(line) ==
    \E word \in SPECIAL_WORDS : Includes(ToLower(line), word)

CONCEPT_LENGTH == 50

\* line.replace(/[-*#]/g, '')
StripMarks(line) == SelectSeq(line, LAMBDA c : c \notin {"-", "*", "#"})

\* String.prototype.trim
RECURSIVE TrimStart(_)
TrimStart(s) ==
    IF s # <<>> /\ Head(s) = " " THEN TrimStart(Tail(s)) ELSE s

RECURSIVE TrimEnd(_)
TrimEnd(s) ==
    IF s # <<>> /\ s[Len(s)] = " " THEN TrimEnd(SubSeq(s, 1, Len(s) - 1)) ELSE s

Trim(s) == TrimEnd(TrimStart(s))

\* line.replace(/[-*#]/g, '').trim().substring(0, 50), skill.js:297
SpecialConcept(line) ==
    LET t == Trim(StripMarks(line))
    IN  SubSeq(t, 1, IF Len(t) < CONCEPT_LENGTH THEN Len(t) ELSE CONCEPT_LENGTH)

\* lines.forEach, skill.js:295-317: only the matching lines count
RECURSIVE ObserveLines(_, _, _, _)
ObserveLines(w, lines, file, t) ==
    IF lines = <<>> THEN w
    ELSE ObserveLines(
           IF IsSpecialLine(Head(lines))
           THEN ObserveSpecial(w, SpecialConcept(Head(lines)), file, t)
           ELSE w,
           Tail(lines), file, t)

\* second logs.forEach, skill.js:290-317
RECURSIVE SpecialLogs(_, _, _, _)
SpecialLogs(w, days, logs, t) ==
    IF days = <<>> THEN w
    ELSE SpecialLogs(ObserveLines(w, logs[Head(days)].specials, Head(days), t),
                     Tail(days), logs, t)

\* the lower-case words that name a truthy property every object inherits
\* from Object.prototype: this.weights[word] is truthy for them although
\* the store has no such key
InheritedKeys ==
    {<<"c", "o", "n", "s", "t", "r", "u", "c", "t", "o", "r">>}

\* the first logs.forEach throws a TypeError: for an inherited word that is
\* not a key of the store, !this.weights[word] is false and
\* this.weights[word].refs is undefined, skill.js:260-280
DistillThrows(w, days, logs) ==
    \E d \in days : \E i \in 1..Len(logs[d].terms) :
        /\ ToLower(logs[d].terms[i]) \in InheritedKeys
        /\ ToLower(logs[d].terms[i]) \notin Keys(w)

----------------------------------------------------------------------------
(* applyUnusedRecallPenalty, skill.js:657-687 *)

Penalized(r) ==
    /\ ~Truthy(r, "pinned")
    /\ Field(r, "recall_count", 0) >= RECALL_THRESHOLD

ApplyUnusedRecallPenalty(w) ==
    [k \in Keys(w) |->
        IF ~Penalized(w[k]) THEN w[k]
        ELSE LET r  == w[k]
                 rc == r.recall_count
                 \* actualCount < recall_count * 0.5
                 r1 == IF 2 * Field(r, "count", 0) < rc
                       THEN Put(r, "weight", r.weight - PENALTY_RATE * rc)
                       ELSE r
             IN  Put(r1, "recall_count", 0)]

----------------------------------------------------------------------------
(* buildHebbianLinks, skill.js:603-648 *)

HebbianStub == [weight |-> REVIVED_WEIGHT, synapses |-> EmptyObj]

\* the lowercased keyword list of one file: fileKeywordsMap.get(file)
FileKeywords(logs, d) ==
    [i \in 1..Len(logs[d].terms) |-> ToLower(logs[d].terms[i])]

\* the iterations (file, i, j) of the three nested loops that reach the
\* increment: i < j, the list has at least 2 keywords, wordA # wordB
LinkSteps(days, logs) ==
    {s \in UNION {{<<d, i, j>> : i \in 1..Len(logs[d].terms),
                                 j \in 1..Len(logs[d].terms)} : d \in days} :
        /\ s[2] < s[3]
        /\ FileKeywords(logs, s[1])[s[2]] # FileKeywords(logs, s[1])[s[3]]}

\* how many of these iterations link the words a and b
LinkCount(days, logs, a, b) ==
    Cardinality({s \in LinkSteps(days, logs) :
        {FileKeywords(logs, s[1])[s[2]], FileKeywords(logs, s[1])[s[3]]} = {a, b}})

\* the words that occur in some linked pair
LinkedWords(days, logs) ==
    UNION {{FileKeywords(logs, s[1])[s[2]], FileKeywords(logs, s[1])[s[3]]} :
              s \in LinkSteps(days, logs)}

\* this.weights after buildHebbianLinks: every iteration adds 1 to both
\* synapses[wordA][wordB] and synapses[wordB][wordA], creating a missing
\* record or synapses field first
BuildHebbianLinks(w, days, logs) ==
    LET words == LinkedWords(days, logs) IN
    [x \in Keys(w) \cup words |->
        IF x \notin words THEN w[x]
        ELSE LET r   == IF x \in Keys(w) THEN w[x] ELSE HebbianStub
                 syn == Field(r, "synapses", EmptyObj)
                 partners == {y \in words : LinkCount(days, logs, x, y) > 0}
             IN  Put(r, "synapses",
                     [y \in Keys(syn) \cup partners |->
                         Field(syn, y, 0) + LinkCount(days, logs, x, y)])]

----------------------------------------------------------------------------
(* recall: activation, LTP and Hebbian expansion, skill.js:368-389 *)

\* Object.keys(this.weights).filter(k => query.includes(k) || k.includes(query))
Activated(w, query) ==
    {k \in Keys(w) : Includes(query, k) \/ Includes(k, query)}

\* The results of sort(descending by rank).slice(0, n) over the keys S.
\* Array.prototype.sort is stable and Object.keys follows insertion order,
\* which the model does not record: every order of equally ranked keys is
\* admitted.
TopChoices(S, rank, n) ==
    {T \in SUBSET S :
        /\ Cardinality(T) = IF Cardinality(S) < n THEN Cardinality(S) ELSE n
        /\ \A a \in T : \A b \in S \ T : rank[a] >= rank[b]}

\* topConcepts without the slice(0, 5)
TopConceptsUnsliced(w, query) == {Activated(w, query)}

\* the sets topConcepts may be
TopConcepts(w, query) ==
    LET rank == [k \in Keys(w) |-> w[k].weight]
    IN  TopChoices(Activated(w, query), rank, TOP_CONCEPTS)

\* topConcepts.forEach body, skill.js:376-382
Reinforce(r, t) ==
    Put(Put(Put(r, "lastAccess", t),
            "weight", r.weight + LTP_INCREMENT),
        "recall_count", Field(r, "recall_count", 0) + 1)

LTP(w, top, t) ==
    [k \in Keys(w) |-> IF k \in top THEN Reinforce(w[k], t) ELSE w[k]]

\* getHebbianAssociations initialises a missing synapses field, skill.js:702-704
InitSynapses(w, query) ==
    LET lq == ToLower(query) IN
    IF lq \in Keys(w) /\ "synapses" \notin DOMAIN w[lq]
    THEN [w EXCEPT ![lq] = Put(@, "synapses", EmptyObj)]
    ELSE w

\* the sets of associated terms getHebbianAssociations may return (topN = 3)
HebbianAssociations(w, query) ==
    LET lq  == ToLower(query)
        syn == IF lq \in Keys(w) THEN Field(w[lq], "synapses", EmptyObj)
               ELSE EmptyObj
    IN  TopChoices(Keys(syn), syn, 3)

\* pinnedRules, skill.js:459-461
PinnedRules(w, query) ==
    {k \in Keys(w) : /\ Truthy(w[k], "pinned")
                     /\ \/ Includes(ToLower(query), k)
                        \/ Includes(k, ToLower(query))}

----------------------------------------------------------------------------
(* deepRecall, skill.js:770-856 *)

\* matchedKeys for the queries [query, ...hebbianTerms]
MatchedKeys(l, queries) ==
    {k \in Keys(l) : \E q \in queries :
        \/ Includes(ToLower(k), ToLower(q))
        \/ Includes(ToLower(q), ToLower(k))}

\* originalWeight || weight || 0
SortWeight(r) ==
    IF Field(r, "originalWeight", 0) # 0 THEN r.originalWeight
    ELSE Field(r, "weight", 0)

\* a variant that slices the matched keys without sorting them
ToReviveUnsorted(l, queries, limit) ==
    LET rank == [k \in Keys(l) |-> 0]
    IN  TopChoices(MatchedKeys(l, queries), rank, limit)

\* the sets toRevive may be
ToRevive(l, queries, limit) ==
    LET rank == [k \in Keys(l) |-> SortWeight(l[k])]
    IN  TopChoices(MatchedKeys(l, queries), rank, limit)

\* the record written to this.weights[key], skill.js:802-808
RevivedRecord(memory, t) ==
    [weight |-> REVIVED_WEIGHT, lastAccess |-> t,
     refs |-> Field(memory, "refs", <<>>),
     revivedFrom |-> "latent", revivedAt |-> t]

DeepRecallHot(w, l, revive, t) ==
    [k \in Keys(w) \cup revive |->
        IF k \in revive THEN RevivedRecord(l[k], t) ELSE w[k]]

DeepRecallLatent(l, revive) == [k \in Keys(l) \ revive |-> l[k]]

----------------------------------------------------------------------------
(* pin-exp and memorize, skill.js:1227-1318 *)

Max(a, b) == IF a >= b THEN a ELSE b

PinExp(w, keyword, rule, t) ==
    LET k == ToLower(keyword) IN
    IF k \notin Keys(w)
    THEN [x \in Keys(w) \cup {k} |->
            IF x = k
            THEN [weight |-> WeightUnit, lastAccess |-> t, lastSeen |-> t,
                  count |-> 1, refs |-> <<>>, pinned |-> TRUE, rule |-> rule]
            ELSE w[x]]
    ELSE [w EXCEPT ![k] =
            Put(Put(Put(Put(@, "pinned", TRUE), "rule", rule),
                    "weight", Max(@.weight, WeightUnit)),
                "lastAccess", t)]

Memorize(w, concept, content, t) ==
    LET k == ToLower(concept) IN
    [x \in Keys(w) \cup {k} |->
        IF x = k
        THEN [weight |-> MEMORIZE_WEIGHT, lastAccess |-> t, lastSeen |-> t,
              firstSeen |-> t, count |-> 1, refs |-> <<>>, pinned |-> TRUE,
              rule |-> content, source |-> "explicit_memorize",
              memorizedAt |-> t]
        ELSE w[x]]

----------------------------------------------------------------------------
(* Observer: observations.jsonl and performBatchAnalysis, observer.js *)

\* String.prototype.substring(0, n)
Substring(s, n) == SubSeq(s, 1, IF Len(s) < n THEN Len(s) ELSE n)

\* the data object silentObserve builds, skill.js:178-187
SilentData(context) ==
    [context |-> context, pattern |-> Substring(context, 50),
     workflowHash |-> Substring(context, 30), taskType |-> Substring(context, 30)]

\* recordObservation appends one line, observer.js:75-92
RecordObservation(obs, id, type, data) ==
    Append(obs, [id |-> id, type |-> type, data |-> data])

\* a || b for strings: the empty string is falsy
NonEmpty(d, f) == f \in DOMAIN d /\ d[f] # <<>>

\* obs.data?.pattern || errorType || workflowHash || taskType || 'default'
GroupKey(o) ==
    IF NonEmpty(o.data, "pattern") THEN o.data.pattern
    ELSE IF NonEmpty(o.data, "errorType") THEN o.data.errorType
    ELSE IF NonEmpty(o.data, "workflowHash") THEN o.data.workflowHash
    ELSE IF NonEmpty(o.data, "taskType") THEN o.data.taskType
    ELSE DEFAULTKEY

ObservationTypes == <<"user_correction", "error_resolution", "workflow",
                      "tool_preference">>

\* typeCounts[type][key]: the observations of one group, in file order
Group(obs, type, key) ==
    SelectSeq(obs, LAMBDA o : o.type = type /\ GroupKey(o) = key)

\* the keys of typeCounts[type] in insertion order
RECURSIVE GroupKeys(_, _, _)
GroupKeys(obs, type, seen) ==
    IF obs = <<>> THEN <<>>
    ELSE LET o == Head(obs)
             k == GroupKey(o)
         IN  IF o.type = type /\ k \notin seen
             THEN <<k>> \o GroupKeys(Tail(obs), type, seen \cup {k})
             ELSE GroupKeys(Tail(obs), type, seen)

\* \W: everything but letters, digits and underscore
NonWordChars == {" ", ":", "-", ".", "+", "/"}

\* key.replace(/\W+/g, '-')
RECURSIVE Sanitize(_)
Sanitize(s) ==
    IF s = <<>> THEN <<>>
    ELSE IF Head(s) \in NonWordChars
         THEN IF Len(s) > 1 /\ s[2] \in NonWordChars
              THEN Sanitize(Tail(s))
              ELSE <<"-">> \o Sanitize(Tail(s))
         ELSE <<Head(s)>> \o Sanitize(Tail(s))

\* calculateConfidence, in hundredths, observer.js:237-242
CalculateConfidence(n) ==
    IF n <= 2 THEN 30 ELSE IF n <= 5 THEN 50 ELSE IF n <= 10 THEN 70 ELSE 85

IdPrefix(type) ==
    CASE type = "user_correction" -> USERCORRECT
      [] type = "error_resolution" -> ERRORRESOLVE
      [] type = "workflow" -> WORKFLOW
      [] type = "tool_preference" -> TOOLPREF

TriggerPrefix(type) ==
    CASE type = "user_correction" -> <<"user correction pattern: ">>
      [] type = "error_resolution" -> <<"error: ">>
      [] type = "workflow" -> <<"workflow: ">>
      [] type = "tool_preference" -> <<"task: ">>

ActionPrefix(type) ==
    CASE type = "user_correction" -> <<"auto-correct: ">>
      [] type = "error_resolution" -> <<"auto-resolve: ">>
      [] type = "workflow" -> <<"auto-execute: ">>
      [] type = "tool_preference" -> <<"use preferred tool for: ">>

DomainOf(type) ==
    CASE type = "user_correction" -> "user_preference"
      [] type = "error_resolution" -> "error_handling"
      [] type = "workflow" -> "workflow"
      [] type = "tool_preference" -> "tool_usage"

\* generateInstinctFromAnalysis, observer.js:181-235
GenerateInstinct(type, key, obsList) ==
    [id |-> IdPrefix(type) \o Sanitize(key),
     trigger |-> TriggerPrefix(type) \o key,
     action |-> ActionPrefix(type) \o key,
     confidence |-> CalculateConfidence(Len(obsList)),
     domain |-> DomainOf(type),
     source |-> "batch-observation",
     evidence |-> [i \in 1..Len(obsList) |-> obsList[i].id]]

\* the record createOrUpdateInstinct stores, observer.js:263-275
InstinctRecord(instinct, t) ==
    [weight |-> WeightUnit, lastAccess |-> t, lastSeen |-> t,
     count |-> Len(instinct.evidence), refs |-> instinct.evidence,
     pinned |-> TRUE, rule |-> instinct.action,
     confidence |-> instinct.confidence, domain |-> instinct.domain,
     source |-> instinct.source, trigger |-> instinct.trigger]

\* weights[key] = {...} for key = instinct.id.toLowerCase()
StoreInstinct(w, instinct, t) ==
    LET k == ToLower(instinct.id) IN
    [x \in Keys(w) \cup {k} |-> IF x = k THEN InstinctRecord(instinct, t) ELSE w[x]]

\* the groups of at least 3 observations, in the order of the two for loops
\* of performBatchAnalysis, observer.js:160-168
RECURSIVE InstinctGroups(_, _)
InstinctGroups(obs, ti) ==
    IF ti > Len(ObservationTypes) THEN <<>>
    ELSE LET type == ObservationTypes[ti]
             keys == GroupKeys(obs, type, {})
             big  == SelectSeq(keys, LAMBDA k : Len(Group(obs, type, k)) >= MIN_GROUP)
         IN  [i \in 1..Len(big) |-> <<type, big[i]>>] \o InstinctGroups(obs, ti + 1)

\* synapse_weights.json after the createOrUpdateInstinct calls of one batch
\* analysis, each of which finds the lock free
RECURSIVE StoreInstincts(_, _, _, _)
StoreInstincts(w, obs, groups, t) ==
    IF groups = <<>> THEN w
    ELSE LET g == Head(groups)
             instinct == GenerateInstinct(g[1], g[2], Group(obs, g[1], g[2]))
         IN  StoreInstincts(StoreInstinct(w, instinct, t), obs, Tail(groups), t)

\* performBatchAnalysis does something: at least 5 observations, 114-127
BatchRuns(obs) == Len(obs) >= MIN_OBSERVATIONS

\* typeCounts[obs.type][key] finds an inherited property of the object
\* literal instead of a list, and push is not a function, observer.js:148-157
BatchThrows(obs) ==
    /\ BatchRuns(obs)
    /\ \E i \in 1..Len(obs) :
          /\ InSeq(obs[i].type, ObservationTypes)
          /\ GroupKey(obs[i]) \in InheritedKeys

\* instinctCreated > 0: some group is large enough and the lock was acquired
InstinctCreated(obs, locked) ==
    /\ BatchRuns(obs)
    /\ ~BatchThrows(obs)
    /\ ~locked
    /\ InstinctGroups(obs, 1) # <<>>

\* synapse_weights.json after performBatchAnalysis
BatchWeights(w, obs, locked, t) ==
    IF InstinctCreated(obs, locked)
    THEN StoreInstincts(w, obs, InstinctGroups(obs, 1), t)
    ELSE w

\* observations.jsonl after performBatchAnalysis (clearObservations)
BatchObservations(obs, locked) ==
    IF InstinctCreated(obs, locked) THEN <<>> ELSE obs

----------------------------------------------------------------------------
(* The commands of the CLI as functions of the loaded stores *)

\* a log filter that keeps today's log in normal mode too
EligibleDaysAll(logs, force, today) == DOMAIN logs

\* the logs distill processes: logFilter, skill.js:236-242
EligibleDays(logs, force, today) ==
    {d \in DOMAIN logs : force \/ d # today}

\* this.weights when distill reaches this.save(), skill.js:253-335
\* this.weights after applyUnusedRecallPenalty, skill.js:253-328
AfterPenalty(w, days, logs, t) ==
    ApplyUnusedRecallPenalty(
      SpecialLogs(ReinforceLogs(w, days, logs, t), days, logs, t))

DistillHot(w, days, logs, t) ==
    ApplyLTDHot(
      BuildHebbianLinks(AfterPenalty(w, days, logs, t),
                        {days[i] : i \in 1..Len(days)}, logs))

\* this.latentWeights after the applyLTD of distill
DistillLatent(w, l, days, logs, t) ==
    ApplyLTDLatent(
      BuildHebbianLinks(AfterPenalty(w, days, logs, t),
                        {days[i] : i \in 1..Len(days)}, logs),
      l, t)

\* fs.renameSync(filePath, archivePath) for every processed log
ArchiveLogs(arch, logs, days) ==
    [d \in DOMAIN arch \cup days |-> IF d \in days THEN logs[d] ELSE arch[d]]

RemoveLogs(logs, days) == [d \in DOMAIN logs \ days |-> logs[d]]

----------------------------------------------------------------------------
(* Inputs *)

kab == <<"a", "b">>
kbc == <<"b", "c">>
kcd == <<"c", "d">>
kde == <<"d", "e">>
kef == <<"e", "f">>
kfg == <<"f", "g">>
qbig == <<"a", "b", "c", "d", "e", "f", "g">>
ket == <<"E", "T">>

\* the log "ab cd"
LogOld == [terms |-> <<kab, kcd>>, specials |-> <<>>]
\* the log "ab bc cd de ef fg"
LogBig == [terms |-> <<kab, kbc, kcd, kde, kef, kfg>>, specials |-> <<>>]

LogContents == {LogBig}
Queries == {kab, qbig}
DeepQueries == {kab}
PinKeys == {kab}
MemorizeKeys == {kcd}

----------------------------------------------------------------------------
(* Initial stores: those left by "distill --force" of the log LogOld on    *)
(* day 0 followed by AgeCycles runs of "forget".                           *)

RECURSIVE AgedHot(_, _)
AgedHot(w, n) == IF n = 0 THEN w ELSE AgedHot(ApplyLTDHot(w), n - 1)

RECURSIVE AgedLatent(_, _, _)
AgedLatent(w, l, n) ==
    IF n = 0 THEN l
    ELSE AgedLatent(ApplyLTDHot(w), ApplyLTDLatent(w, l, 0), n - 1)

FirstLogs == [d \in {0} |-> LogOld]
FirstHot == DistillHot(EmptyObj, <<0>>, FirstLogs, 0)
FirstLatent == DistillLatent(EmptyObj, EmptyObj, <<0>>, FirstLogs, 0)

InitStore ==
    /\ weights = AgedHot(FirstHot, AgeCycles)
    /\ latentWeights = AgedLatent(FirstHot, FirstLatent, AgeCycles)
    /\ activeLogs = EmptyObj
    /\ archive = FirstLogs
    /\ observations = RecordObservation(<<>>, 1, "workflow",
                                        SilentData(DISTILLCOMPLETED))
    /\ obsSeq = 1
    /\ now = 0
    /\ lastOp = [op |-> "forget"]
    /\ result = [status |-> "returned"]
    /\ nSteps = 0

InitLock ==
    /\ lockFile = FALSE
    /\ pc = [p \in 1..NumProcs |-> "idle"]
    /\ cmd = [p \in 1..NumProcs |-> "none"]
    /\ mem = [p \in 1..NumProcs |-> EmptyObj]
    /\ memLatent = [p \in 1..NumProcs |-> EmptyObj]
    /\ attempts = [p \in 1..NumProcs |-> 0]
    /\ holding = [p \in 1..NumProcs |-> FALSE]
    /\ trace = [p \in 1..NumProcs |-> EmptyObj]

\* no recall is in progress
IdleCall ==
    [pc |-> "idle", query |-> <<>>, deep |-> FALSE, top |-> {},
     expanded |-> {}, vector |-> "none", timer |-> "none",
     local |-> "none", localResults |-> {}, winner |-> "none",
     outcome |-> [kind |-> "none"], vectorResults |-> [isNull |-> TRUE, items |-> {}],
     vectorTimeout |-> FALSE]

InitCall == call = IdleCall

Init == InitStore /\ InitLock /\ InitCall

----------------------------------------------------------------------------
(* The commands, run one after the other (skill.js:1196-1401).  Each       *)
(* command is a process that loads both files in its constructor.          *)

Step ==
    /\ nSteps < MaxSteps
    /\ nSteps' = nSteps + 1

\* time passes
Tick ==
    /\ Step
    /\ now < MaxClock
    /\ now' = now + 1
    /\ lastOp' = [op |-> "tick"]
    /\ UNCHANGED <<weights, latentWeights, activeLogs, archive, observations,
                   obsSeq, result>>
    /\ UNCHANGED <<lockVars, call>>

\* the agent writes today's log
WriteLog(c) ==
    /\ Step
    /\ now \notin DOMAIN activeLogs
    /\ activeLogs' = [d \in DOMAIN activeLogs \cup {now} |->
                         IF d = now THEN c ELSE activeLogs[d]]
    /\ lastOp' = [op |-> "write-log"]
    /\ UNCHANGED <<weights, latentWeights, archive, observations, obsSeq, now,
                   result>>
    /\ UNCHANGED <<lockVars, call>>

\* the host records an observation: Observer.recordObservation
Observe(type, data) ==
    /\ obsSeq < MaxObs
    /\ observations' = RecordObservation(observations, obsSeq + 1, type, data)
    /\ obsSeq' = obsSeq + 1
    /\ lastOp' = [op |-> "observe"]
    /\ UNCHANGED <<weights, latentWeights, activeLogs, archive, now, result,
                   nSteps>>
    /\ UNCHANGED <<lockVars, call>>

\* node skill.js distill [--force]
Distill(force) ==
    LET w    == weights
        l    == latentWeights
        days == EligibleDays(activeLogs, force, now)
        seq  == SortedDays(days)
        afterBatch    == BatchWeights(weights, observations, lockFile, now)
        obsAfterBatch == BatchObservations(observations, lockFile)
    IN
    /\ Step
    /\ lastOp' = [op |-> "distill", force |-> force, logs |-> days]
    /\ result' = IF DistillThrows(w, days, activeLogs)
                 THEN [status |-> "rejected", error |-> "TypeError"]
                 ELSE [status |-> "returned"]
    /\ IF days = {} \/ DistillThrows(w, days, activeLogs)
       THEN /\ weights' = afterBatch
            /\ observations' = obsAfterBatch
            /\ UNCHANGED <<latentWeights, activeLogs, archive, obsSeq>>
       ELSE /\ weights' = DistillHot(w, seq, activeLogs, now)
            /\ latentWeights' = DistillLatent(w, l, seq, activeLogs, now)
            /\ archive' = ArchiveLogs(archive, activeLogs, days)
            /\ activeLogs' = RemoveLogs(activeLogs, days)
            /\ observations' = RecordObservation(obsAfterBatch, obsSeq + 1,
                                   "workflow", SilentData(DISTILLCOMPLETED))
            /\ obsSeq' = obsSeq + 1
    /\ UNCHANGED now
    /\ UNCHANGED <<lockVars, call>>

\* node skill.js forget
Forget ==
    /\ Step
    /\ weights' = ApplyLTDHot(weights)
    /\ latentWeights' = ApplyLTDLatent(weights, latentWeights, now)
    /\ lastOp' = [op |-> "forget"]
    /\ result' = [status |-> "returned"]
    /\ UNCHANGED <<activeLogs, archive, observations, obsSeq, now>>
    /\ UNCHANGED <<lockVars, call>>

\* node skill.js recall <query> [--deep]
Recall(query, deep) ==
    /\ Step
    /\ \E top \in TopConcepts(weights, query) :
        LET w1 == InitSynapses(LTP(weights, top, now), query) IN
        \E hebbianTerms \in HebbianAssociations(w1, query) :
          LET expandedQuery == {query} \cup hebbianTerms IN
          /\ lastOp' = [op |-> "recall", query |-> query, deep |-> deep]
          /\ IF deep
             THEN \E revive \in ToRevive(latentWeights, expandedQuery, REVIVE_LIMIT) :
                    /\ weights' = DeepRecallHot(w1, latentWeights, revive, now)
                    /\ latentWeights' = DeepRecallLatent(latentWeights, revive)
                    \* deepRecall reads the undeclared variable query, 850
                    /\ result' = [status |-> "rejected", error |-> "ReferenceError",
                                  activated_concepts |-> top, revived |-> revive]
                    /\ UNCHANGED <<observations, obsSeq>>
             ELSE /\ weights' = w1
                  /\ result' = [status |-> "returned",
                                activated_concepts |-> top,
                                pinned_rules |-> PinnedRules(w1, query),
                                scoring_mode |-> "semantic_x_frequency_x_decay"]
                  /\ observations' = RecordObservation(observations, obsSeq + 1,
                                         "workflow", SilentData(query))
                  /\ obsSeq' = obsSeq + 1
                  /\ UNCHANGED latentWeights
    /\ UNCHANGED <<activeLogs, archive, now>>
    /\ UNCHANGED <<lockVars, call>>

\* node skill.js deep-recall <query>
DeepRecall(query) ==
    /\ Step
    /\ \E revive \in ToRevive(latentWeights, {query}, REVIVE_LIMIT) :
        /\ weights' = DeepRecallHot(weights, latentWeights, revive, now)
        /\ latentWeights' = DeepRecallLatent(latentWeights, revive)
        /\ result' = [status |-> "rejected", error |-> "ReferenceError",
                      revived |-> revive]
    /\ lastOp' = [op |-> "deep-recall", query |-> query]
    /\ UNCHANGED <<activeLogs, archive, observations, obsSeq, now>>
    /\ UNCHANGED <<lockVars, call>>

\* node skill.js pin-exp <keyword>:<rule>
PinExpCmd(keyword, rule) ==
    /\ Step
    /\ weights' = PinExp(weights, keyword, rule, now)
    /\ lastOp' = [op |-> "pin-exp", keyword |-> keyword]
    /\ result' = [status |-> "returned"]
    /\ UNCHANGED <<latentWeights, activeLogs, archive, observations, obsSeq, now>>
    /\ UNCHANGED <<lockVars, call>>

\* node skill.js memorize <concept>:<content>
MemorizeCmd(concept, content) ==
    /\ Step
    /\ weights' = Memorize(weights, concept, content, now)
    /\ lastOp' = [op |-> "memorize", keyword |-> concept]
    /\ result' = [status |-> "returned"]
    /\ UNCHANGED <<latentWeights, activeLogs, archive, observations, obsSeq, now>>
    /\ UNCHANGED <<lockVars, call>>

Next ==
    \/ Tick
    \/ \E c \in LogContents : WriteLog(c)
    \/ \E force \in BOOLEAN : Distill(force)
    \/ Forget
    \/ \E q \in Queries, deep \in BOOLEAN : Recall(q, deep)
    \/ \E q \in DeepQueries : DeepRecall(q)
    \/ \E k \in PinKeys : PinExpCmd(k, "rule")
    \/ \E k \in MemorizeKeys : MemorizeCmd(k, "content")

Spec == Init /\ [][Next]_vars

----------------------------------------------------------------------------
(* The Observer's promotion path: the host records observations, the agent *)
(* writes logs, distill runs the batch analysis.                           *)

ObservationInputs ==
    {<<"error_resolution", [errorType |-> ket]>>,
     <<"tool_preference", [taskType |-> kab]>>}

NextObs ==
    \/ \E o \in ObservationInputs : Observe(o[1], o[2])
    \/ \E c \in LogContents : WriteLog(c)
    \/ \E force \in BOOLEAN : Distill(force)

SpecObs == Init /\ [][NextObs]_vars

----------------------------------------------------------------------------
(* Claims about the synapse store, checked under Spec *)

\* C1: no concept key is in the hot store and in the latent store at the
\* same time.
C1_Disjoint == Keys(weights) \cap Keys(latentWeights) = {}

\* C2: a record that is pinned in the hot store is, after a recall (deep or
\* not), a distill or a forget, still in the hot store and pinned, has not
\* been moved to the latent store, and has not lost weight.
C2_PinnedStable ==
    [][\A k \in Keys(weights) :
          (Truthy(weights[k], "pinned")
           /\ lastOp'.op \in {"recall", "distill", "forget"})
          => /\ k \in Keys(weights')
             /\ Truthy(weights'[k], "pinned")
             /\ weights'[k].weight >= weights[k].weight
             /\ (k \in Keys(latentWeights') => k \in Keys(latentWeights))]_vars

Synapses(w, a) == IF a \in Keys(w) THEN Field(w[a], "synapses", EmptyObj) ELSE EmptyObj

\* C3: hot[A].synapses[B] exists if and only if hot[B].synapses[A] exists,
\* and the two strengths are equal.
C3_HebbianSymmetry ==
    \A a \in Keys(weights) : \A b \in Keys(Synapses(weights, a)) :
        /\ a \in Keys(Synapses(weights, b))
        /\ Synapses(weights, b)[a] = Synapses(weights, a)[b]

\* the step is a recall(q) without the deep option
PlainRecallStep ==
    /\ nSteps' = nSteps + 1
    /\ lastOp'.op = "recall"
    /\ ~lastOp'.deep

\* recall reinforced the hot record of T: weight + 0.1, recall_count + 1,
\* firstSeen untouched
Reinforced(T) ==
    /\ T \in Keys(weights')
    /\ weights'[T].weight = weights[T].weight + LTP_INCREMENT
    /\ weights'[T].recall_count = Field(weights[T], "recall_count", 0) + 1
    /\ ("firstSeen" \in DOMAIN weights'[T]) = ("firstSeen" \in DOMAIN weights[T])
    /\ Field(weights'[T], "firstSeen", 0) = Field(weights[T], "firstSeen", 0)

RecallStep ==
    /\ nSteps' = nSteps + 1
    /\ lastOp'.op = "recall"

C10_RecallReturns == lastOp.op = "recall" => result.status = "returned"

----------------------------------------------------------------------------
(* Concurrent processes on the weight files.  A process runs one command:  *)
(* "instinct" is Observer.createOrUpdateInstinct (observer.js:247-286),    *)
(* "forget" is the CLI forget command (skill.js:198-199, 1222-1226).  Each *)
(* file-system call is one step; the busy wait of acquireLock is the time  *)
(* the other processes get between two steps.                              *)

MAX_RETRIES == 5

Procs == 1..NumProcs

Commands == {"instinct", "forget"}

\* the instinct process p stores
ProcInstinct(p) ==
    GenerateInstinct(ObservationTypes[p], ket, [i \in 1..MIN_GROUP |-> [id |-> i]])

NewTrace == [acquired |-> FALSE, free |-> FALSE, wrote |-> FALSE, ret |-> "pending"]

StoreUnchanged ==
    UNCHANGED <<activeLogs, archive, observations, obsSeq, now, lastOp, result,
                nSteps, call>>

\* a process starts its command
Start(p, c) ==
    /\ pc[p] = "idle"
    /\ cmd' = [cmd EXCEPT ![p] = c]
    /\ pc' = [pc EXCEPT ![p] = IF c = "instinct" THEN "acquire" ELSE "construct"]
    /\ trace' = [trace EXCEPT ![p] = NewTrace]
    /\ UNCHANGED <<weights, latentWeights, lockFile, mem, memLatent, attempts,
                   holding>>
    /\ StoreUnchanged

\* a loop that makes one more iteration
AcquireExhaustedLate(n) == n >= MAX_RETRIES + 1

\* for (let i = 0; i < maxRetries; i++) is over after iteration n
AcquireExhausted(n) == n >= MAX_RETRIES

\* where acquireLock goes after iteration n found no lock to take: the next
\* iteration, or return false and createOrUpdateInstinct returns false
AfterFailedAttempt(p, n) ==
    IF AcquireExhausted(n)
    THEN /\ pc' = [pc EXCEPT ![p] = "done"]
         /\ trace' = [trace EXCEPT ![p].ret = "false"]
    ELSE /\ pc' = [pc EXCEPT ![p] = "acquire"]
         /\ UNCHANGED trace

\* acquireLock, fs.existsSync(LOCK_FILE), observer.js:46
AcquireLockCheck(p) ==
    /\ pc[p] = "acquire"
    /\ attempts' = [attempts EXCEPT ![p] = @ + 1]
    /\ IF lockFile
       THEN AfterFailedAttempt(p, attempts[p] + 1)
       ELSE /\ pc' = [pc EXCEPT ![p] = "lock"]
            /\ trace' = [trace EXCEPT ![p].free = TRUE]
    /\ UNCHANGED <<weights, latentWeights, lockFile, cmd, mem, memLatent, holding>>
    /\ StoreUnchanged

\* acquireLock, fs.writeFileSync(LOCK_FILE, ...), observer.js:47-52: it
\* creates or overwrites the file, or throws and the loop goes on
AcquireLockWrite(p, ok) ==
    /\ pc[p] = "lock"
    /\ IF ok
       THEN /\ lockFile' = TRUE
            /\ holding' = [holding EXCEPT ![p] = TRUE]
            /\ pc' = [pc EXCEPT ![p] = "read"]
            /\ trace' = [trace EXCEPT ![p].acquired = TRUE]
       ELSE /\ AfterFailedAttempt(p, attempts[p])
            /\ UNCHANGED <<lockFile, holding>>
    /\ UNCHANGED <<weights, latentWeights, cmd, mem, memLatent, attempts>>
    /\ StoreUnchanged

\* createOrUpdateInstinct, the inner try, observer.js:254-259
ReadWeightsFile(p, ok) ==
    /\ pc[p] = "read"
    /\ mem' = [mem EXCEPT ![p] = IF ok THEN weights ELSE EmptyObj]
    /\ pc' = [pc EXCEPT ![p] = "write"]
    /\ UNCHANGED <<weights, latentWeights, lockFile, cmd, memLatent, attempts,
                   holding, trace>>
    /\ StoreUnchanged

\* a catch block that returns without the finally block
AfterWriteNoFinally(ok) == IF ok THEN "release" ELSE "done"

\* the finally block runs after the write and after the catch, 280-285
AfterWrite(ok) == "release"

\* createOrUpdateInstinct, observer.js:261-282
WriteWeightsFile(p, ok) ==
    /\ pc[p] = "write"
    /\ IF ok
       THEN /\ weights' = StoreInstinct(mem[p], ProcInstinct(p), now)
            /\ trace' = [trace EXCEPT ![p].wrote = TRUE, ![p].ret = "true"]
       ELSE /\ UNCHANGED weights
            /\ trace' = [trace EXCEPT ![p].ret = "false"]
    /\ pc' = [pc EXCEPT ![p] = AfterWrite(ok)]
    /\ UNCHANGED <<latentWeights, lockFile, cmd, mem, memLatent, attempts, holding>>
    /\ StoreUnchanged

\* releaseLock, fs.existsSync(LOCK_FILE), observer.js:63
ReleaseLockCheck(p) ==
    /\ pc[p] = "release"
    /\ IF lockFile
       THEN /\ pc' = [pc EXCEPT ![p] = "unlink"]
            /\ UNCHANGED holding
       ELSE /\ pc' = [pc EXCEPT ![p] = "done"]
            /\ holding' = [holding EXCEPT ![p] = FALSE]
    /\ UNCHANGED <<weights, latentWeights, lockFile, cmd, mem, memLatent,
                   attempts, trace>>
    /\ StoreUnchanged

\* releaseLock, fs.unlinkSync(LOCK_FILE), observer.js:64-68: the file is
\* gone afterwards, removed here or by another process in between
ReleaseLockUnlink(p) ==
    /\ pc[p] = "unlink"
    /\ lockFile' = FALSE
    /\ holding' = [holding EXCEPT ![p] = FALSE]
    /\ pc' = [pc EXCEPT ![p] = "done"]
    /\ UNCHANGED <<weights, latentWeights, cmd, mem, memLatent, attempts, trace>>
    /\ StoreUnchanged

\* new SynapseMemory(), skill.js:198-199
Construct(p) ==
    /\ pc[p] = "construct"
    /\ mem' = [mem EXCEPT ![p] = weights]
    /\ memLatent' = [memLatent EXCEPT ![p] = latentWeights]
    /\ pc' = [pc EXCEPT ![p] = "applyLTD"]
    /\ UNCHANGED <<weights, latentWeights, lockFile, cmd, attempts, holding, trace>>
    /\ StoreUnchanged

\* memory.applyLTD(), skill.js:728-759, with its saveLatent()
ApplyLTDStep(p) ==
    LET hot    == ApplyLTDHot(mem[p])
        latent == ApplyLTDLatent(mem[p], memLatent[p], now)
    IN
    /\ pc[p] = "applyLTD"
    /\ mem' = [mem EXCEPT ![p] = hot]
    /\ memLatent' = [memLatent EXCEPT ![p] = latent]
    /\ IF Keys(hot) # Keys(mem[p])
       THEN /\ latentWeights' = latent
            /\ trace' = [trace EXCEPT ![p].wrote = TRUE]
       ELSE UNCHANGED <<latentWeights, trace>>
    /\ pc' = [pc EXCEPT ![p] = "save"]
    /\ UNCHANGED <<weights, lockFile, cmd, attempts, holding>>
    /\ StoreUnchanged

\* memory.save(), skill.js:209-211, 1224
Save(p) ==
    /\ pc[p] = "save"
    /\ weights' = mem[p]
    /\ trace' = [trace EXCEPT ![p].wrote = TRUE, ![p].ret = "true"]
    /\ pc' = [pc EXCEPT ![p] = "done"]
    /\ UNCHANGED <<latentWeights, lockFile, cmd, mem, memLatent, attempts, holding>>
    /\ StoreUnchanged

NextLock ==
    \E p \in Procs :
        \/ \E c \in Commands : Start(p, c)
        \/ AcquireLockCheck(p)
        \/ \E ok \in BOOLEAN : AcquireLockWrite(p, ok)
        \/ \E ok \in BOOLEAN : ReadWeightsFile(p, ok)
        \/ \E ok \in BOOLEAN : WriteWeightsFile(p, ok)
        \/ ReleaseLockCheck(p)
        \/ ReleaseLockUnlink(p)
        \/ Construct(p)
        \/ ApplyLTDStep(p)
        \/ Save(p)

SpecLock == Init /\ [][NextLock]_vars

----------------------------------------------------------------------------
(* Claims about the Observer's promotion, checked under SpecObs *)

ValidTypes == {ObservationTypes[i] : i \in 1..Len(ObservationTypes)}

\* the positions of the observations of type ty whose key is key
Similar(obs, ty, key) ==
    {i \in 1..Len(obs) : obs[i].type = ty /\ GroupKey(obs[i]) = key}

\* the hot store holds the pinned instinct of the group (ty, key) of obs
HasInstinct(w, obs, ty, key) ==
    LET id == ToLower(IdPrefix(ty) \o Sanitize(key)) IN
    /\ id \in Keys(w)
    /\ Truthy(w[id], "pinned")
    /\ Field(w[id], "trigger", <<>>) = TriggerPrefix(ty) \o key
    /\ Field(w[id], "confidence", 0) = CalculateConfidence(Cardinality(Similar(obs, ty, key)))
    /\ {w[id].refs[i] : i \in 1..Len(w[id].refs)}
          = {obs[i].id : i \in Similar(obs, ty, key)}

\* C4: when distill runs on at least 5 observations of which at least 3
\* share the same (type, key), then afterwards the persisted hot store holds
\* the pinned instinct of that group and observations.jsonl is empty, whether
\* or not the run also distilled logs.
C4_InstinctPersisted ==
    [][(lastOp'.op = "distill" /\ nSteps' = nSteps + 1
        /\ Len(observations) >= MIN_OBSERVATIONS)
       => \A i \in 1..Len(observations) :
            LET ty  == observations[i].type
                key == GroupKey(observations[i])
            IN  (ty \in ValidTypes
                 /\ Cardinality(Similar(observations, ty, key)) >= MIN_GROUP)
                => /\ HasInstinct(weights', observations, ty, key)
                   /\ observations' = <<>>]_vars

----------------------------------------------------------------------------
(* Claims about the advisory lock, checked under SpecLock *)

\* the step is taken by process p
StepOf(p) == pc'[p] # pc[p] \/ attempts'[p] # attempts[p]

\* C5: every write of synapse_weights.json and latent_weights.json is made
\* by a process that holds .observer.lock.
C5_WritesUnderLock ==
    [][\A p \in Procs :
         (StepOf(p) /\ (weights' # weights \/ latentWeights' # latentWeights))
         => holding[p]]_vars

\* C6: at most one process holds .observer.lock at any time.
C6_MutualExclusion == Cardinality({p \in Procs : holding[p]}) <= 1

\* the call of process p is over
Returned(p) == pc[p] = "done" /\ cmd[p] = "instinct"

\* C7: acquireLock never makes more than 5 attempts, and when every attempt
\* found the lock held, createOrUpdateInstinct has made exactly 5, returned
\* false and not written synapse_weights.json.
C7_BoundedRetries ==
    \A p \in Procs :
        /\ attempts[p] <= 5
        /\ (Returned(p) /\ ~trace[p].free)
           => /\ attempts[p] = 5
              /\ trace[p].ret = "false"
              /\ ~trace[p].wrote
              /\ ~trace[p].acquired

C7_Witness ==
    \E p \in Procs :
        /\ Returned(p) /\ ~trace[p].free /\ trace[p].ret = "false"
        /\ \E q \in Procs \ {p} : holding[q] /\ lockFile

----------------------------------------------------------------------------
(* recall step by step (skill.js:364-482): the activation and the save,    *)
(* then the local search promise, the vector search promise with its       *)
(* 3-second timer, and the merge.  A result list is the set of the files   *)
(* it names.                                                               *)

TIMEOUT == <<"t", "i", "m", "e", "o", "u", "t">>

\* new Error('Vector timeout'), skill.js:410
VECTOR_TIMEOUT_MSG ==
    <<"V", "e", "c", "t", "o", "r", " ", "t", "i", "m", "e", "o", "u", "t">>

\* the TypeError of isAvailable when apiKey is not a string,
\* silicon-embed.js:87-93, thrown outside the try block of search
NOT_A_FUNCTION_MSG ==
    <<"s", "t", "a", "r", "t", "s", "W", "i", "t", "h", " ", "i", "s", " ",
      "n", "o", "t", " ", "a", " ", "f", "u", "n", "c", "t", "i", "o", "n">>

\* the files a search may name
SearchFiles == DOMAIN activeLogs \cup DOMAIN archive

\* what embedder.search(query) settles with, silicon-embed.js:479-521
EmbedderOutcomes ==
    {[kind |-> "resolved", success |-> TRUE, results |-> r] : r \in SUBSET SearchFiles}
    \cup {[kind |-> "resolved", success |-> FALSE, results |-> {}]}
    \cup {[kind |-> "rejected", message |-> NOT_A_FUNCTION_MSG]}

\* what localFileSearch(expandedQuery) resolves to: it never rejects,
\* skill.js:591-601
LocalOutcomes == SUBSET SearchFiles

Null == [isNull |-> TRUE, items |-> {}]

\* return result?.success ? result.results : null, skill.js:412
VectorValue(outcome) ==
    IF outcome.kind = "resolved" /\ outcome.success
    THEN [isNull |-> FALSE, items |-> outcome.results]
    ELSE Null

\* vectorTimeout = error.message.includes('timeout'), skill.js:414
IsTimeoutMessage(message) == Includes(message, TIMEOUT)

\* a recall that has not saved yet when it starts the searches
WeightsNotYetSaved(loaded, reinforced) == loaded

\* synapse_weights.json when the two searches are started: this.save() of
\* skill.js:389 comes before skill.js:396
WeightsAtSearchStart(loaded, reinforced) == reinforced

\* recall up to the start of the searches, skill.js:364-420
RecallBegin(query, deep, embedder) ==
    /\ Step
    /\ call.pc = "idle"
    /\ \E top \in TopConcepts(weights, query) :
        LET w1 == InitSynapses(LTP(weights, top, now), query) IN
        \E hebbianTerms \in HebbianAssociations(w1, query) :
          /\ weights' = WeightsAtSearchStart(weights, w1)
          /\ call' = [IdleCall EXCEPT
                        !.pc = "searching", !.query = query, !.deep = deep,
                        !.top = top, !.expanded = {query} \cup hebbianTerms,
                        !.local = "pending",
                        !.vector = IF embedder THEN "pending" ELSE "none",
                        !.timer = IF embedder THEN "armed" ELSE "none"]
    /\ lastOp' = [op |-> "recall-begin", query |-> query, deep |-> deep]
    /\ result' = [status |-> "pending"]
    /\ UNCHANGED <<latentWeights, activeLogs, archive, observations, obsSeq, now>>
    /\ UNCHANGED lockVars

\* the local search promise resolves
LocalSettle(files) ==
    /\ call.local = "pending"
    /\ call' = [call EXCEPT !.local = "settled", !.localResults = files]
    /\ lastOp' = [op |-> "local-settled"]
    /\ UNCHANGED <<weights, latentWeights, activeLogs, archive, observations,
                   obsSeq, now, result, nSteps>>
    /\ UNCHANGED lockVars

\* embedder.search settles: it wins the race of skill.js:408-411 when the
\* timer has not fired, and is ignored otherwise
VectorSettle(outcome) ==
    /\ call.vector = "pending"
    /\ IF call.winner = "none"
       THEN call' = [call EXCEPT
                       !.vector = "settled", !.winner = "vector",
                       !.outcome = outcome,
                       !.vectorResults = VectorValue(outcome),
                       !.vectorTimeout = IF outcome.kind = "rejected"
                                         THEN IsTimeoutMessage(outcome.message)
                                         ELSE FALSE]
       ELSE call' = [call EXCEPT !.vector = "late", !.outcome = outcome]
    /\ lastOp' = [op |-> "vector-settled"]
    /\ UNCHANGED <<weights, latentWeights, activeLogs, archive, observations,
                   obsSeq, now, result, nSteps>>
    /\ UNCHANGED lockVars

\* the 3-second timer fires: it rejects the race when embedder.search has
\* not settled, and has no effect otherwise
TimerFire ==
    /\ call.timer = "armed"
    /\ IF call.winner = "none"
       THEN call' = [call EXCEPT
                       !.timer = "fired", !.winner = "timer",
                       !.vectorResults = Null,
                       !.vectorTimeout = IsTimeoutMessage(VECTOR_TIMEOUT_MSG)]
       ELSE call' = [call EXCEPT !.timer = "expired"]
    /\ lastOp' = [op |-> "timer"]
    /\ UNCHANGED <<weights, latentWeights, activeLogs, archive, observations,
                   obsSeq, now, result, nSteps>>
    /\ UNCHANGED lockVars

\* a merge that does not look at the length of the list
UseVectorWhenPresent(c) == ~c.vectorResults.isNull

\* vectorResults && vectorResults.length > 0, skill.js:433
UseVector(c) == ~c.vectorResults.isNull /\ c.vectorResults.items # {}

\* recall from the merge to the return, skill.js:422-481
RecallEnd ==
    LET source == IF UseVector(call) THEN "silicon-embed" ELSE "local-file-search"
        found  == IF UseVector(call) THEN call.vectorResults.items
                  ELSE call.localResults
    IN
    /\ call.pc = "searching"
    /\ call.vector = "none" \/ call.winner # "none"
    /\ UseVector(call) \/ call.local = "settled"
    /\ call' = [call EXCEPT !.pc = "idle"]
    /\ lastOp' = [op |-> "recall", query |-> call.query, deep |-> call.deep]
    /\ IF call.deep
       THEN \E revive \in ToRevive(latentWeights, call.expanded, REVIVE_LIMIT) :
              /\ weights' = DeepRecallHot(weights, latentWeights, revive, now)
              /\ latentWeights' = DeepRecallLatent(latentWeights, revive)
              \* deepRecall reads the undeclared variable query, 850
              /\ result' = [status |-> "rejected", error |-> "ReferenceError",
                            activated_concepts |-> call.top, revived |-> revive]
              /\ UNCHANGED <<observations, obsSeq>>
       ELSE /\ result' = [status |-> "returned",
                          source |-> source,
                          activated_concepts |-> call.top,
                          pinned_rules |-> PinnedRules(weights, call.query),
                          search_results |-> found,
                          scoring_mode |-> "semantic_x_frequency_x_decay",
                          is_fast_mode |-> call.vectorTimeout]
            /\ observations' = RecordObservation(observations, obsSeq + 1,
                                   "workflow", SilentData(call.query))
            /\ obsSeq' = obsSeq + 1
            /\ UNCHANGED <<weights, latentWeights>>
    /\ UNCHANGED <<activeLogs, archive, now, nSteps>>
    /\ UNCHANGED lockVars

NextRecall ==
    \/ \E q \in Queries : \E deep \in BOOLEAN : \E embedder \in BOOLEAN :
          RecallBegin(q, deep, embedder)
    \/ \E files \in LocalOutcomes : LocalSettle(files)
    \/ \E outcome \in EmbedderOutcomes : VectorSettle(outcome)
    \/ TimerFire
    \/ RecallEnd
    \/ (call.pc = "idle" /\ Forget)

SpecRecall == Init /\ [][NextRecall]_vars

----------------------------------------------------------------------------
(* Claims about the searches of recall, checked under SpecRecall *)

\* a recall has just returned its response
Responded == lastOp.op = "recall" /\ result.status = "returned"

\* embedder.search won the race with a successful, non-empty list
VectorSucceeded ==
    /\ call.winner = "vector"
    /\ call.outcome.kind = "resolved"
    /\ call.outcome.success
    /\ call.outcome.results # {}

\* C11: the response has source 'silicon-embed' exactly when the vector
\* search returned a successful, non-empty list before the timer fired;
\* otherwise the results are those of the local search and the source is
\* 'local-file-search'; is_fast_mode is true exactly when the timer fired
\* before the vector search settled.
C11_SourceOfResults ==
    Responded =>
        /\ result.source = "silicon-embed" <=> VectorSucceeded
        /\ VectorSucceeded => result.search_results = call.outcome.results
        /\ ~VectorSucceeded =>
              /\ result.source = "local-file-search"
              /\ result.search_results = call.localResults
        /\ result.is_fast_mode <=> call.winner = "timer"

\* a response built from the vector results, and one built after the timer
\* fired (two states, so two witnesses of the same claim are not needed:
\* this is the timer case with non-empty local results)
C11_Witness ==
    /\ Responded
    /\ call.winner = "timer"
    /\ result.is_fast_mode
    /\ result.source = "local-file-search"
    /\ result.search_results # {}

\* C12: when the timer fires before embedder.search settles, recall
\* completes and returns the local results with source 'local-file-search'
\* and is_fast_mode = true; a vector result that arrives later changes
\* neither the response nor the stores.
C12_TimeoutFallsBack ==
    [][/\ (call.pc = "searching" /\ call'.pc = "idle" /\ call.winner = "timer")
          => /\ result'.status = "returned"
             /\ result'.source = "local-file-search"
             /\ result'.is_fast_mode
             /\ result'.search_results = call.localResults
       /\ (call.vector = "pending" /\ call'.vector = "late")
          => UNCHANGED <<weights, latentWeights, result>>]_vars

\* C13: when the two searches are started, synapse_weights.json already
\* holds the LTP update of every activated concept, and it keeps it while
\* the searches are pending, fail or time out.
C13_LTPBeforeSearch ==
    [][/\ (call.pc = "idle" /\ call'.pc = "searching")
          => /\ call'.local = "pending"
             /\ call'.winner = "none"
             /\ \A T \in call'.top :
                   /\ Reinforced(T)
                   /\ weights'[T].lastAccess = now
       /\ (call.pc = "searching" /\ call'.pc = "searching")
          => weights' = weights]_vars

\* the timer fired, the local search found nothing, and the reinforced
\* record is in the file
C13_Witness ==
    /\ call.pc = "searching"
    /\ call.winner = "timer"
    /\ call.local = "settled"
    /\ call.localResults = {}
    /\ call.top # {}
    /\ \A T \in call.top : weights[T].recall_count >= 1 /\ weights[T].lastAccess = now

----------------------------------------------------------------------------
(* Claims about demotion and revival, checked under Spec *)

\* the keys a deep recall has revived in this step
RevivedNow ==
    IF lastOp'.op = "deep-recall" \/ (lastOp'.op = "recall" /\ lastOp'.deep)
    THEN result'.revived ELSE {}

\* C14: a concept that applyLTD demoted and deepRecall now revives is in
\* the hot store with the revived weight 0.5 and the firstSeen it had
\* before its demotion, and is no longer in the latent store.
C14_RevivalRoundTrip ==
    [][nSteps' = nSteps + 1 =>
         \A C \in RevivedNow :
            ("archivedAt" \in DOMAIN latentWeights[C]) =>
               /\ C \in Keys(weights')
               /\ C \notin Keys(latentWeights')
               /\ weights'[C].weight = REVIVED_WEIGHT
               /\ ("firstSeen" \in DOMAIN latentWeights[C]) =>
                     /\ "firstSeen" \in DOMAIN weights'[C]
                     /\ weights'[C].firstSeen = latentWeights[C].firstSeen]_vars

\* the firstSeen written for key k: the one of its hot record, or of its
\* latent record when the hot store has none; <<>> when there is none
FirstSeenOf(w, l, k) ==
    IF k \in Keys(w) /\ "firstSeen" \in DOMAIN w[k] THEN <<w[k].firstSeen>>
    ELSE IF k \in Keys(l) /\ "firstSeen" \in DOMAIN l[k] THEN <<l[k].firstSeen>>
    ELSE <<>>

\* C16: once the firstSeen of a key has been written, no command changes or
\* removes it, whether the key stays hot, is demoted, revived, observed
\* again, pinned or memorized.
C16_FirstSeenImmutable ==
    [][\A k \in Keys(weights) \cup Keys(latentWeights) :
         FirstSeenOf(weights, latentWeights, k) # <<>>
         => FirstSeenOf(weights', latentWeights', k)
               = FirstSeenOf(weights, latentWeights, k)]_vars

----------------------------------------------------------------------------
(* A store that has been in use: the concept "ab" of the initial store has *)
(* been recalled RecalledTimes times and WornCycles forget cycles have     *)
(* passed since.                                                           *)

RECURSIVE RecalledHot(_, _)
RecalledHot(w, n) ==
    IF n = 0 THEN w ELSE RecalledHot(LTP(w, {kab}, 0), n - 1)

RECURSIVE RecallObservations(_, _)
RecallObservations(obs, n) ==
    IF n = 0 THEN obs
    ELSE RecordObservation(RecallObservations(obs, n - 1), n + 1, "workflow",
                           SilentData(kab))

UsedHot == RecalledHot(AgedHot(FirstHot, AgeCycles), RecalledTimes)

WornStore ==
    /\ weights = AgedHot(UsedHot, WornCycles)
    /\ latentWeights = AgedLatent(UsedHot,
                          AgedLatent(FirstHot, FirstLatent, AgeCycles), WornCycles)
    /\ activeLogs = EmptyObj
    /\ archive = FirstLogs
    /\ observations = RecallObservations(
                          RecordObservation(<<>>, 1, "workflow",
                                            SilentData(DISTILLCOMPLETED)),
                          RecalledTimes)
    /\ obsSeq = RecalledTimes + 1
    /\ now = 0
    /\ lastOp = [op |-> "forget"]
    /\ result = [status |-> "returned"]
    /\ nSteps = 0

\* a log that does not mention "ab"
LogSmall == [terms |-> <<kcd, kde>>, specials |-> <<>>]

NextWorn ==
    \/ Tick
    \/ WriteLog(LogSmall)
    \/ \E force \in BOOLEAN : Distill(force)
    \/ Forget
    \/ Recall(kab, FALSE)
    \/ \E k \in PinKeys : PinExpCmd(k, "rule")

InitWorn == WornStore /\ InitLock /\ InitCall

SpecWorn == InitWorn /\ [][NextWorn]_vars

----------------------------------------------------------------------------
(* Claims about weights, checked under SpecWorn *)

\* C15: every hot record has weight >= 0, in the store every command leaves
\* behind and in the store of a distill right after predictive LTD has
\* subtracted 0.1 x recall_count.
C15_WeightNonNegative ==
    [][/\ \A k \in Keys(weights') : weights'[k].weight >= 0
       /\ (lastOp'.op = "distill" /\ nSteps' = nSteps + 1 /\ lastOp'.logs # {})
          => LET p == AfterPenalty(weights, SortedDays(lastOp'.logs),
                                   activeLogs, now)
             IN  \A k \in Keys(p) : p[k].weight >= 0]_vars

----------------------------------------------------------------------------
(* A fresh installation: both stores and both log directories are empty,   *)
(* no observation has been recorded.  The agent writes dated logs and the  *)
(* first distillations run.                                                *)

kmemory == <<"m", "e", "m", "o", "r", "y">>
ksystem == <<"s", "y", "s", "t", "e", "m">>
kcache == <<"c", "a", "c", "h", "e">>
kconstructor == <<"c", "o", "n", "s", "t", "r", "u", "c", "t", "o", "r">>
kimportant == <<"i", "m", "p", "o", "r", "t", "a", "n", "t">>
kretry == <<"r", "e", "t", "r", "y">>
ktodo == <<"t", "o", "d", "o">>

\* a word of PadLength letters
PadLength == 50
Padding == [i \in 1..PadLength |-> "x"]

\* the line "- IMPORTANT: retry on 429"
LineImportant ==
    <<"-", " ", "I", "M", "P", "O", "R", "T", "A", "N", "T", ":", " ",
      "r", "e", "t", "r", "y", " ", "o", "n", " ", "4", "2", "9">>

\* the line "## ToDo " followed by fifty letters: longer than a concept
LineLong == <<"#", "#", " ", "T", "o", "D", "o", " ">> \o Padding

\* the log "memory system cache"
LogPlain == [terms |-> <<kmemory, ksystem, kcache>>, specials |-> <<>>]
\* the log "memory constructor"
LogConstructor == [terms |-> <<kmemory, kconstructor>>, specials |-> <<>>]
\* the log "- IMPORTANT: retry on 429"; "on" is a stop word, skill.js:64-74
LogImportant ==
    [terms |-> <<kimportant, kretry>>, specials |-> <<LineImportant>>]
\* the log of the long line
LogLong == [terms |-> <<ktodo, Padding>>, specials |-> <<LineLong>>]

FreshLogs == {LogPlain, LogConstructor, LogImportant, LogLong}

FreshStore ==
    /\ weights = EmptyObj
    /\ latentWeights = EmptyObj
    /\ activeLogs = EmptyObj
    /\ archive = EmptyObj
    /\ observations = <<>>
    /\ obsSeq = 0
    /\ now = 0
    /\ lastOp = [op |-> "forget"]
    /\ result = [status |-> "returned"]
    /\ nSteps = 0

NextFresh ==
    \/ Tick
    \/ \E c \in FreshLogs : WriteLog(c)
    \/ \E force \in BOOLEAN : Distill(force)
    \/ Forget

InitFresh == FreshStore /\ InitLock /\ InitCall

SpecFresh == InitFresh /\ [][NextFresh]_vars

\* a distill --force that found the store empty and exactly one log, a log
\* without special-concept lines
FirstDistill(d) ==
    /\ lastOp'.op = "distill" /\ nSteps' = nSteps + 1
    /\ lastOp'.force
    /\ weights = EmptyObj /\ latentWeights = EmptyObj
    /\ lastOp'.logs = {d}
    /\ activeLogs[d].specials = <<>>

TermsOf(log) == {ToLower(log.terms[i]) : i \in 1..Len(log.terms)}

\* C17: after distill --force on an empty store with a single dated log,
\* every extracted term is a hot key with weight 1.0, count 1 and
\* refs = [that file], every pair of terms is linked with strength 1 in
\* both directions, and the log is in the archive and no longer active.
C17_FirstDistill ==
    [][\A d \in DOMAIN activeLogs :
         FirstDistill(d) =>
           LET T == TermsOf(activeLogs[d]) IN
           /\ \A k \in T :
                 /\ k \in Keys(weights')
                 /\ weights'[k].weight = WeightUnit
                 /\ weights'[k].count = 1
                 /\ weights'[k].refs = <<d>>
           /\ \A a \in T : \A b \in T \ {a} :
                 Field(Synapses(weights', a), b, 0) = 1
           /\ d \in DOMAIN archive'
           /\ d \notin DOMAIN activeLogs']_vars

\* the special-concept lines of the logs a distillation reads, as
\* <<file, position>> pairs
SpecialLinesOf(days, logs) ==
    {x \in UNION {{<<d, i>> : i \in 1..Len(logs[d].specials)} : d \in days} :
        IsSpecialLine(logs[x[1]].specials[x[2]])}

ConceptKey(logs, x) == ToLower(SpecialConcept(logs[x[1]].specials[x[2]]))

\* C18: a line matching the special-concept regex contributes the concept
\* keyed by the lowercased first 50 characters of the stripped line, and
\* each distilled occurrence of the line, the first one included, adds 0.5
\* on top of the base weight of the concept (1.0 for a new concept, the
\* stored weight otherwise); the sum is what the closing decay multiplies.
C18_SpecialConceptBonus ==
    [][(/\ lastOp'.op = "distill" /\ nSteps' = nSteps + 1
        /\ result'.status = "returned")
       => \A x \in SpecialLinesOf(lastOp'.logs, activeLogs) :
            LET k    == ConceptKey(activeLogs, x)
                n    == Cardinality(
                          {y \in SpecialLinesOf(lastOp'.logs, activeLogs) :
                              ConceptKey(activeLogs, y) = k})
                base == IF k \in Keys(weights) THEN weights[k].weight
                        ELSE WeightUnit
            IN  /\ Len(k) <= CONCEPT_LENGTH
                /\ k \in Keys(weights')
                /\ weights'[k].weight = Decay(base + n * SPECIAL_INCREMENT)]_vars

----------------------------------------------------------------------------
(* applyLTD as the forget command and the end of distill run it *)

\* the step ran applyLTD on the hot records pre and persisted the outcome
LTDApplied(pre) ==
    \A k \in Keys(pre) :
      IF Truthy(pre[k], "pinned")
      THEN /\ k \in Keys(weights') /\ weights'[k] = pre[k]
           /\ k \in Keys(latentWeights') <=> k \in Keys(latentWeights)
      ELSE IF (pre[k].weight * DECAY_RATE_PCT) \div 100 < FORGET_THRESHOLD
      THEN /\ k \notin Keys(weights')
           /\ k \in Keys(latentWeights')
           /\ latentWeights'[k].originalWeight =
                  (pre[k].weight * DECAY_RATE_PCT) \div 100
           /\ latentWeights'[k].archivedAt = now
      ELSE /\ k \in Keys(weights')
           /\ weights'[k].weight = (pre[k].weight * DECAY_RATE_PCT) \div 100
           /\ k \in Keys(latentWeights') <=> k \in Keys(latentWeights)
           /\ k \in Keys(latentWeights) => latentWeights'[k] = latentWeights[k]

\* C19: applyLTD (the forget command and the end of distill) multiplies
\* the weight of every non-pinned hot record by the decay rate; a record
\* whose decayed weight is below the forget threshold leaves the hot store
\* and enters the latent store with originalWeight = the decayed weight and
\* archivedAt stamped; a record at or above the threshold stays hot; pinned
\* records are left unchanged.
C19_ApplyLTD ==
    [][/\ (lastOp'.op = "forget" /\ nSteps' = nSteps + 1)
          => LTDApplied(weights)
       /\ (/\ lastOp'.op = "distill" /\ nSteps' = nSteps + 1
           /\ lastOp'.logs # {} /\ result'.status = "returned")
          => LTDApplied(
               BuildHebbianLinks(
                 AfterPenalty(weights, SortedDays(lastOp'.logs), activeLogs, now),
                 lastOp'.logs, activeLogs))]_vars

\* the applyLTD that closes a distillation has demoted cd right after its
\* second observation, kept the fresh records at their decayed weight and
\* left the pinned ab alone
C19_Witness ==
    /\ lastOp.op = "distill" /\ lastOp.logs # {}
    /\ kcd \in Keys(latentWeights) /\ kcd \notin Keys(weights)
    /\ latentWeights[kcd].count = 2
    /\ latentWeights[kcd].archivedAt = now
    /\ latentWeights[kcd].originalWeight = latentWeights[kcd].weight
    /\ latentWeights[kcd].weight < FORGET_THRESHOLD
    /\ kab \in Keys(weights) /\ Truthy(weights[kab], "pinned")
    /\ weights[kab].weight = WeightUnit
    /\ kbc \in Keys(weights) /\ weights[kbc].weight = Decay(WeightUnit)

----------------------------------------------------------------------------
(* deepRecall called with a list of queries and a limit, as recall does    *)
(* with the expanded query and options.reviveLimit.  The store is the one  *)
(* left by a distillation of the big log, RecalledTimes recalls of "ab"    *)
(* and enough forget cycles to demote every record.                        *)

BigLogs == [d \in {0} |-> LogBig]
BigHot == DistillHot(EmptyObj, <<0>>, BigLogs, 0)
BigLatent == DistillLatent(EmptyObj, EmptyObj, <<0>>, BigLogs, 0)
BigUsedHot == RecalledHot(BigHot, RecalledTimes)

ForgottenStore ==
    /\ weights = AgedHot(BigUsedHot, ForgottenCycles)
    /\ latentWeights = AgedLatent(BigUsedHot, BigLatent, ForgottenCycles)
    /\ activeLogs = EmptyObj
    /\ archive = BigLogs
    /\ observations = RecallObservations(
                          RecordObservation(<<>>, 1, "workflow",
                                            SilentData(DISTILLCOMPLETED)),
                          RecalledTimes)
    /\ obsSeq = RecalledTimes + 1
    /\ now = 0
    /\ lastOp = [op |-> "forget"]
    /\ result = [status |-> "returned"]
    /\ nSteps = 0

kAB == <<"A", "B">>
kb == <<"b">>

DeepQuerySets == {{qbig}, {kAB}, {kb, kfg}}
DeepLimits == {1, 2, REVIVE_LIMIT}

\* memory.deepRecall(queries, limit), skill.js:770-857
DeepRecallCall(queries, limit) ==
    /\ Step
    /\ \E revive \in ToRevive(latentWeights, queries, limit) :
        /\ weights' = DeepRecallHot(weights, latentWeights, revive, now)
        /\ latentWeights' = DeepRecallLatent(latentWeights, revive)
        \* the return statement reads the undeclared variable query, 850
        /\ result' = [status |-> "rejected", error |-> "ReferenceError",
                      revived |-> revive]
    /\ lastOp' = [op |-> "deepRecall", queries |-> queries, limit |-> limit]
    /\ UNCHANGED <<activeLogs, archive, observations, obsSeq, now>>
    /\ UNCHANGED <<lockVars, call>>

NextForgotten ==
    \/ Tick
    \/ \E queries \in DeepQuerySets, limit \in DeepLimits :
          DeepRecallCall(queries, limit)
    \/ Forget

InitForgotten == ForgottenStore /\ InitLock /\ InitCall

SpecForgotten == InitForgotten /\ [][NextForgotten]_vars

\* key and query match: one contains the other, letter case ignored
Matches(k, q) ==
    \/ Includes(ToLower(k), ToLower(q))
    \/ Includes(ToLower(q), ToLower(k))

\* C20: deepRecall(queries, limit) revives at most limit latent keys; every
\* revived key matches some query; no matching key left behind has a
\* strictly higher originalWeight than a revived one; the matching keys
\* beyond the limit and all other keys stay in latent unchanged.
C20_DeepRecallRevives ==
    [][(lastOp'.op = "deepRecall" /\ nSteps' = nSteps + 1)
       => LET l       == latentWeights
              revived == Keys(l) \ Keys(latentWeights')
              matched == {k \in Keys(l) :
                            \E q \in lastOp'.queries : Matches(k, q)}
          IN  /\ Cardinality(revived) <= lastOp'.limit
              /\ revived \subseteq matched
              /\ \A k \in revived :
                    /\ k \in Keys(weights')
                    /\ weights'[k].weight = REVIVED_WEIGHT
              /\ \A r \in revived : \A u \in matched \ revived :
                    ~(l[u].originalWeight > l[r].originalWeight)
              /\ \A k \in Keys(l) \ revived :
                    /\ k \in Keys(latentWeights')
                    /\ latentWeights'[k] = l[k]
              /\ Keys(latentWeights') \subseteq Keys(l)
              /\ \A k \in Keys(weights) \ revived :
                    k \in Keys(weights') /\ weights'[k] = weights[k]]_vars

\* deepRecall(["abcdefg"], 5) met six matching latent keys and revived the
\* five of highest originalWeight; "ab", the weakest, is still latent
C20_Witness ==
    /\ lastOp.op = "deepRecall" /\ nSteps = 1
    /\ lastOp.queries = {qbig} /\ lastOp.limit = REVIVE_LIMIT
    /\ Keys(latentWeights) = {kab} /\ Matches(kab, qbig)
    /\ \A k \in {kbc, kcd, kde, kef, kfg} :
          /\ k \in Keys(weights) /\ weights[k].weight = REVIVED_WEIGHT
          /\ weights[k].revivedFrom = "latent"

----------------------------------------------------------------------------
(* One distillation, statement by statement.  Process 1 is the node        *)
(* process that runs it: mem and memLatent are this.weights and            *)
(* this.latentWeights, trace records the statements already executed.      *)
(* The body of distill is synchronous up to save(), so nothing else runs   *)
(* in the process between its steps.                                       *)

\* the process that distills
D == 1

DistillLogs == {LogSmall, LogBig, LogConstructor}

DistillIdle == pc[D] \in {"idle", "done"}

DistillFrame ==
    /\ UNCHANGED <<lockFile, cmd, attempts, holding, call>>
    /\ UNCHANGED <<now, nSteps>>

Phase(name) == trace' = [trace EXCEPT ![D].phases = Append(@, name)]

\* a distillation that builds the links before the penalty
NextPhaseLinksFirst ==
    [reinforcement |-> "links", links |-> "penalty", penalty |-> "ltd",
     ltd |-> "save"]

\* the statement that follows each statement, skill.js:328-335
NextPhase ==
    [reinforcement |-> "penalty", penalty |-> "links", links |-> "ltd",
     ltd |-> "save"]

\* the methods of the class SiliconEmbed, silicon-embed.js:60-604
EmbedderMethods ==
    {"isAvailable", "loadVectorCache", "loadMeta", "saveMeta",
     "saveVectorCache", "getEmbedding", "getEmbeddingsBatch", "buildIndex",
     "incrementalIndex", "search", "calculateSimilarityAndSort",
     "cosineSimilarity", "getMarkdownFiles", "splitIntoChunks"}

\* the API keys of the configuration: none, or a key of a known format
KEY_NONE == <<>>
KEY_SK == <<"s", "k", "-", "1">>
ApiKeys == {KEY_NONE, KEY_SK}

\* isAvailable, silicon-embed.js:87-93
IsAvailable(apiKey) ==
    /\ apiKey # <<>>
    /\ Substring(apiKey, 3) \in {<<"s", "k", "-">>, <<"h", "f", "_">>,
                                 <<"v", "k", "-">>}

\* the try block that ends distill, skill.js:337-350: the files handed to
\* incrementalIndex and the exception the catch logs
IndexToday(apiKey, today, logs) ==
    IF "isConfigured" \notin EmbedderMethods
    THEN [indexed |-> {}, logged |-> "TypeError"]
    ELSE IF IsAvailable(apiKey) /\ today \in DOMAIN logs
         THEN [indexed |-> {today}, logged |-> "none"]
         ELSE [indexed |-> {}, logged |-> "none"]

\* new SynapseMemory() and the batch analysis, skill.js:198-199, 227-234,
\* then the log filter and the early return, skill.js:236-251
DistillBegin(force) ==
    LET days == EligibleDays(activeLogs, force, now) IN
    /\ Step
    /\ DistillIdle
    /\ mem' = [mem EXCEPT ![D] = weights]
    /\ memLatent' = [memLatent EXCEPT ![D] = latentWeights]
    /\ weights' = BatchWeights(weights, observations, lockFile, now)
    /\ observations' = BatchObservations(observations, lockFile)
    /\ trace' = [trace EXCEPT ![D] =
                    [phases |-> <<>>, force |-> force, days |-> days,
                     todo |-> SortedDays(days), at |-> now, loaded |-> weights,
                     afterBatch |-> BatchWeights(weights, observations,
                                                 lockFile, now),
                     loadedLatent |-> latentWeights]]
    /\ pc' = [pc EXCEPT ![D] = IF days = {} THEN "done" ELSE "reinforce"]
    /\ lastOp' = [op |-> "distill-begin", force |-> force]
    /\ result' = IF days = {} THEN [status |-> "returned"]
                 ELSE [status |-> "pending"]
    /\ UNCHANGED <<latentWeights, activeLogs, archive, obsSeq, now>>
    /\ UNCHANGED <<lockFile, cmd, attempts, holding, call>>

\* one iteration of the first logs.forEach, skill.js:253-287
DistillReinforce ==
    LET d == Head(trace[D].todo) IN
    /\ pc[D] = "reinforce"
    /\ IF DistillThrows(mem[D], {d}, activeLogs)
       THEN /\ pc' = [pc EXCEPT ![D] = "done"]
            /\ result' = [status |-> "rejected", error |-> "TypeError"]
            /\ trace' = [trace EXCEPT ![D].phases = Append(@, "throw")]
            /\ UNCHANGED mem
       ELSE /\ mem' = [mem EXCEPT ![D] =
                         ObserveTerms(@, activeLogs[d].terms, d, now)]
            /\ trace' = [trace EXCEPT ![D].phases = Append(@, "reinforcement"),
                                      ![D].todo = Tail(@)]
            /\ pc' = [pc EXCEPT ![D] =
                         IF Len(trace[D].todo) = 1 THEN "special"
                         ELSE "reinforce"]
            /\ UNCHANGED result
    /\ lastOp' = [op |-> "distill-step", phase |-> "reinforcement"]
    /\ UNCHANGED <<weights, latentWeights, activeLogs, archive, observations,
                   obsSeq, memLatent>>
    /\ DistillFrame

\* the second logs.forEach: special lines and the rename, skill.js:290-326
DistillSpecial ==
    /\ pc[D] = "special"
    /\ mem' = [mem EXCEPT ![D] =
                 SpecialLogs(@, SortedDays(trace[D].days), activeLogs, now)]
    /\ archive' = ArchiveLogs(archive, activeLogs, trace[D].days)
    /\ activeLogs' = RemoveLogs(activeLogs, trace[D].days)
    /\ Phase("reinforcement")
    /\ pc' = [pc EXCEPT ![D] = NextPhase.reinforcement]
    /\ lastOp' = [op |-> "distill-step", phase |-> "special"]
    /\ UNCHANGED <<weights, latentWeights, observations, obsSeq, memLatent,
                   result>>
    /\ DistillFrame

\* this.applyUnusedRecallPenalty(), skill.js:328
DistillPenalty ==
    /\ pc[D] = "penalty"
    /\ mem' = [mem EXCEPT ![D] = ApplyUnusedRecallPenalty(@)]
    /\ Phase("predictive LTD")
    /\ pc' = [pc EXCEPT ![D] = NextPhase.penalty]
    /\ lastOp' = [op |-> "distill-step", phase |-> "penalty"]
    /\ UNCHANGED <<weights, latentWeights, activeLogs, archive, observations,
                   obsSeq, memLatent, result>>
    /\ DistillFrame

\* this.buildHebbianLinks(fileKeywordsMap), skill.js:331; the map holds the
\* keywords of the logs, which are in the archive by now
DistillLinks ==
    /\ pc[D] = "links"
    /\ mem' = [mem EXCEPT ![D] = BuildHebbianLinks(@, trace[D].days, archive)]
    /\ Phase("link construction")
    /\ pc' = [pc EXCEPT ![D] = NextPhase.links]
    /\ lastOp' = [op |-> "distill-step", phase |-> "links"]
    /\ UNCHANGED <<weights, latentWeights, activeLogs, archive, observations,
                   obsSeq, memLatent, result>>
    /\ DistillFrame

\* this.applyLTD() with its saveLatent(), skill.js:333, 728-759
DistillLTD ==
    LET hot    == ApplyLTDHot(mem[D])
        latent == ApplyLTDLatent(mem[D], memLatent[D], now)
    IN
    /\ pc[D] = "ltd"
    /\ mem' = [mem EXCEPT ![D] = hot]
    /\ memLatent' = [memLatent EXCEPT ![D] = latent]
    /\ latentWeights' = IF Keys(hot) # Keys(mem[D]) THEN latent
                        ELSE latentWeights
    /\ Phase("LTD decay")
    /\ pc' = [pc EXCEPT ![D] = NextPhase.ltd]
    /\ lastOp' = [op |-> "distill-step", phase |-> "ltd"]
    /\ UNCHANGED <<weights, activeLogs, archive, observations, obsSeq, result>>
    /\ DistillFrame

\* this.save(), the incremental index of today's log and
\* silentObserve('distill-completed'), skill.js:335-354
DistillSave ==
    /\ pc[D] = "save"
    /\ weights' = mem[D]
    /\ \E apiKey \in ApiKeys :
          trace' = [trace EXCEPT
                       ![D] = Put(Put([@ EXCEPT !.phases = Append(@, "persistence")],
                                      "apiKey", apiKey),
                                  "embedder", IndexToday(apiKey, now, activeLogs))]
    /\ pc' = [pc EXCEPT ![D] = "done"]
    /\ observations' = RecordObservation(observations, obsSeq + 1, "workflow",
                                         SilentData(DISTILLCOMPLETED))
    /\ obsSeq' = obsSeq + 1
    /\ result' = [status |-> "returned"]
    /\ lastOp' = [op |-> "distill-step", phase |-> "save"]
    /\ UNCHANGED <<latentWeights, activeLogs, archive, mem, memLatent>>
    /\ DistillFrame

NextDistill ==
    \/ (DistillIdle /\ Tick)
    \/ \E c \in DistillLogs : (DistillIdle /\ WriteLog(c))
    \/ \E force \in BOOLEAN : DistillBegin(force)
    \/ DistillReinforce
    \/ DistillSpecial
    \/ DistillPenalty
    \/ DistillLinks
    \/ DistillLTD
    \/ DistillSave

SpecDistill == InitWorn /\ [][NextDistill]_vars

\* the position of a statement in the order of the claim
PhaseRank ==
    [x \in {"reinforcement", "predictive LTD", "link construction",
            "LTD decay", "persistence"} |->
        CASE x = "reinforcement" -> 1
          [] x = "predictive LTD" -> 2
          [] x = "link construction" -> 3
          [] x = "LTD decay" -> 4
          [] x = "persistence" -> 5]

Distilling == "phases" \in DOMAIN trace[D] /\ trace[D].days # {}

\* C21: within one distillation the steps occur in the order reinforcement
\* of all terms, predictive LTD, link construction, LTD decay and demotion,
\* persistence of the hot store, each after the previous one has finished,
\* in normal and in force mode; what is persisted is the composition of the
\* four transformations in that order.
C21_DistillOrder ==
    LET ph == trace[D].phases
        n  == Cardinality(trace[D].days) + 1
        ordered ==
            \A i \in 1..Len(ph) :
                IF i <= n THEN ph[i] = "reinforcement"
                ELSE PhaseRank[ph[i]] = i - n + 1
        persisted ==
            ApplyLTDHot(
              BuildHebbianLinks(
                ApplyUnusedRecallPenalty(
                  SpecialLogs(
                    ReinforceLogs(trace[D].loaded, SortedDays(trace[D].days),
                                  archive, trace[D].at),
                    SortedDays(trace[D].days), archive, trace[D].at)),
                trace[D].days, archive))
    IN  (Distilling /\ ~(ph # <<>> /\ ph[Len(ph)] = "throw"))
        => /\ ordered
           /\ IF pc[D] = "done"
              THEN /\ Len(ph) = n + 4
                   /\ ph[Len(ph)] = "persistence"
                   /\ weights = persisted
              ELSE weights = trace[D].afterBatch

\* a forced distillation of two logs has run to the end and its predictive
\* LTD has penalised the recalled but unused "ab"
C21_Witness ==
    /\ Distilling /\ pc[D] = "done" /\ trace[D].force
    /\ Cardinality(trace[D].days) = 2
    /\ Len(trace[D].phases) = 7 /\ trace[D].phases[7] = "persistence"
    /\ kab \in Keys(latentWeights) /\ latentWeights[kab].weight < 0

----------------------------------------------------------------------------
\* C22: after a distillation that processed at least one log, every record
\* in the hot store has recall_count = 0, pinned records and records that
\* had recall_count 1 or 2 included.
C22_RecallCountReset ==
    [][(/\ lastOp'.op = "distill" /\ nSteps' = nSteps + 1
        /\ lastOp'.logs # {} /\ result'.status = "returned")
       => \A k \in Keys(weights') :
             Field(weights'[k], "recall_count", 0) = 0]_vars

\* the links of every record of a store
AllSynapses(w) == [k \in Keys(w) |-> Synapses(w, k)]

\* C23: distill with no eligible log is a no-op on the synapse store: no
\* record is created, removed or re-keyed, no link is built, no file is
\* archived; only weights may change, and a record may move from hot to
\* latent.
C23_EmptyDistillNoOp ==
    [][(/\ lastOp'.op = "distill" /\ nSteps' = nSteps + 1
        /\ lastOp'.logs = {})
       => /\ Keys(weights') \cup Keys(latentWeights')
               = Keys(weights) \cup Keys(latentWeights)
          /\ Keys(weights') \subseteq Keys(weights)
          /\ \A k \in Keys(weights') :
                Synapses(weights', k) = Synapses(weights, k)
          /\ archive' = archive
          /\ activeLogs' = activeLogs]_vars

\* C24: once a log file is in the archive directory its content is never
\* replaced, modified or removed by a later distillation, a distill --force
\* of a new active log with the same dated file name included.
C24_ArchiveAppendOnly ==
    [][\A d \in DOMAIN archive :
         d \in DOMAIN archive' /\ archive'[d] = archive[d]]_vars

----------------------------------------------------------------------------
(* Corrupt persisted state: a store file that holds malformed JSON, here   *)
(* the text of a write that was cut short.                                 *)

\* the content of a file that JSON.parse rejects
MALFORMED == [k \in {<<"{">>} |-> [weight |-> 0]]

IsMalformed(file) == <<"{">> \in DOMAIN file

\* new SynapseMemory() returns: both JSON.parse calls succeed,
\* skill.js:198-199
Loadable == ~IsMalformed(weights) /\ ~IsMalformed(latentWeights)

CliCommands == {"forget", "pin-exp", "memorize", "distill"}

\* a write of a store file is cut short (power loss, full disk)
CorruptFile(hot) ==
    /\ Step
    /\ IF hot
       THEN weights' = MALFORMED /\ UNCHANGED latentWeights
       ELSE latentWeights' = MALFORMED /\ UNCHANGED weights
    /\ lastOp' = [op |-> "corrupt"]
    /\ UNCHANGED <<activeLogs, archive, observations, obsSeq, now, result>>
    /\ UNCHANGED <<lockVars, call>>

\* node skill.js <command> when a store file is malformed: the constructor
\* call at module level throws a SyntaxError that nothing catches,
\* skill.js:198-199, 1193
ConstructThrows(command) ==
    /\ Step
    /\ ~Loadable
    /\ lastOp' = [op |-> command, aborted |-> TRUE]
    /\ result' = [status |-> "rejected", error |-> "SyntaxError"]
    /\ UNCHANGED <<weights, latentWeights, activeLogs, archive, observations,
                   obsSeq, now>>
    /\ UNCHANGED <<lockVars, call>>

\* the host's Observer stores an instinct: createOrUpdateInstinct reads a
\* malformed weights file as {}, observer.js:247-286
HostInstinct ==
    /\ Step
    /\ ~lockFile
    /\ weights' = StoreInstinct(IF IsMalformed(weights) THEN EmptyObj ELSE weights,
                                ProcInstinct(1), now)
    /\ lastOp' = [op |-> "instinct"]
    /\ result' = [status |-> "returned"]
    /\ UNCHANGED <<latentWeights, activeLogs, archive, observations, obsSeq, now>>
    /\ UNCHANGED <<lockVars, call>>

NextCorrupt ==
    \/ \E hot \in BOOLEAN : CorruptFile(hot)
    \/ \E c \in CliCommands : ConstructThrows(c)
    \/ HostInstinct
    \/ (Loadable /\ Tick)
    \/ \E c \in LogContents : WriteLog(c)
    \/ \E force \in BOOLEAN : (Loadable /\ Distill(force))
    \/ (Loadable /\ Forget)
    \/ \E k \in PinKeys : (Loadable /\ PinExpCmd(k, "rule"))
    \/ \E k \in MemorizeKeys : (Loadable /\ MemorizeCmd(k, "content"))

SpecCorrupt == Init /\ [][NextCorrupt]_vars

\* C25: when synapse_weights.json or latent_weights.json holds malformed
\* JSON, a command loads that store as empty and does not abort, and a
\* command that writes the store leaves valid JSON in the file.
C25_CorruptTreatedAsEmpty ==
    [][(lastOp'.op \in CliCommands /\ nSteps' = nSteps + 1)
       => /\ result'.status = "returned"
          /\ (lastOp'.op = "forget" => ~IsMalformed(weights'))]_vars

----------------------------------------------------------------------------
(* LocalFileSearch.execute on the event loop.  buildIndexIncremental and   *)
(* searchInIndex contain no asynchronous operation, so the whole search    *)
(* runs inside the task that called execute and in the microtasks that     *)
(* follow it; the callback of setTimeout is a task of its own and runs     *)
(* only after them.                                                        *)

\* this.maxExecutionTime, in milliseconds
MAX_EXECUTION_TIME == 100

\* the time the synchronous index build and search take, in milliseconds
SearchCosts == {1, 50, 500}

\* execute(query) is called: the timer is armed, performSearch runs up to
\* its await with the index build inside, observer.js:430-442, 466-467;
\* fails says that the index build throws (a file vanished before statSync)
ExecuteBegin(query, cost, fails, files) ==
    /\ Step
    /\ call.pc = "idle"
    /\ call' = [pc |-> "microtasks", query |-> query, elapsed |-> cost,
                search |-> IF fails THEN "rejected" ELSE "resolved",
                files |-> files, timer |-> "armed", race |-> "pending"]
    /\ lastOp' = [op |-> "execute-begin"]
    /\ result' = [status |-> "pending"]
    /\ UNCHANGED <<weights, latentWeights, activeLogs, archive, observations,
                   obsSeq, now>>
    /\ UNCHANGED lockVars

\* the microtasks of the calling task: performSearch finishes and settles
\* Promise.race, observer.js:444, 468-500
RaceSettles ==
    /\ call.pc = "microtasks"
    /\ call' = [call EXCEPT !.pc = "settled", !.race = call.search]
    /\ lastOp' = [op |-> "execute-race"]
    /\ UNCHANGED <<weights, latentWeights, activeLogs, archive, observations,
                   obsSeq, now, result, nSteps>>
    /\ UNCHANGED lockVars

\* the timer callback, a task that starts when the clock has passed the
\* delay and no task or microtask is running; its rejection reaches a race
\* that is settled, observer.js:437-440
TimeoutCallback ==
    /\ call.pc \in {"settled", "returned"}
    /\ call.timer = "armed"
    /\ call' = [call EXCEPT !.timer = "fired"]
    /\ lastOp' = [op |-> "execute-timer"]
    /\ UNCHANGED <<weights, latentWeights, activeLogs, archive, observations,
                   obsSeq, now, result, nSteps>>
    /\ UNCHANGED lockVars

\* the continuation of execute after the await: return result, or the
\* catch block, whose object literal reads the undeclared variable query,
\* observer.js:444-458
ExecuteReturn ==
    /\ call.pc = "settled"
    /\ call' = [call EXCEPT !.pc = "returned"]
    /\ result' = IF call.race = "resolved"
                 THEN [status |-> "returned", results |-> call.files,
                       executionTime |-> call.elapsed]
                 ELSE [status |-> "rejected", error |-> "ReferenceError"]
    /\ lastOp' = [op |-> "execute", elapsed |-> call.elapsed]
    /\ UNCHANGED <<weights, latentWeights, activeLogs, archive, observations,
                   obsSeq, now, nSteps>>
    /\ UNCHANGED lockVars

\* the caller is done with the call
ExecuteForget ==
    /\ call.pc = "returned"
    /\ call' = IdleCall
    /\ lastOp' = [op |-> "execute-end"]
    /\ UNCHANGED <<weights, latentWeights, activeLogs, archive, observations,
                   obsSeq, now, result, nSteps>>
    /\ UNCHANGED lockVars

NextLocal ==
    \/ \E q \in Queries, cost \in SearchCosts, fails \in BOOLEAN :
          \E files \in LocalOutcomes : ExecuteBegin(q, cost, fails, files)
    \/ RaceSettles
    \/ TimeoutCallback
    \/ ExecuteReturn
    \/ ExecuteForget
    \/ (call.pc = "idle" /\ Tick)
    \/ \E c \in LogContents : (call.pc = "idle" /\ WriteLog(c))

SpecLocal == Init /\ [][NextLocal]_vars

\* C26: when the local search is still running 100 ms after it started,
\* execute returns normally a result object with an empty results list and
\* a timing field.
C26_LocalTimeout ==
    [][(lastOp'.op = "execute" /\ lastOp'.elapsed > MAX_EXECUTION_TIME)
       => /\ result'.status = "returned"
          /\ result'.results = {}
          /\ "executionTime" \in DOMAIN result']_vars

----------------------------------------------------------------------------
(* The batch analysis on its own: the host records observations, another   *)
(* Observer may hold .observer.lock, and performBatchAnalysis runs.        *)

BatchInputs ==
    {<<"error_resolution", [errorType |-> ket]>>,
     <<"tool_preference", [taskType |-> kab]>>,
     <<"tool_preference", [taskType |-> kconstructor]>>}

\* another Observer enters createOrUpdateInstinct, observer.js:247-251
HolderAcquires ==
    /\ ~lockFile
    /\ lockFile' = TRUE
    /\ lastOp' = [op |-> "holder-acquires"]
    /\ UNCHANGED <<weights, latentWeights, activeLogs, archive, observations,
                   obsSeq, now, result, nSteps, call>>
    /\ UNCHANGED <<pc, cmd, mem, memLatent, attempts, holding, trace>>

\* and leaves it, observer.js:280-282
HolderReleases ==
    /\ lockFile
    /\ lockFile' = FALSE
    /\ lastOp' = [op |-> "holder-releases"]
    /\ UNCHANGED <<weights, latentWeights, activeLogs, archive, observations,
                   obsSeq, now, result, nSteps, call>>
    /\ UNCHANGED <<pc, cmd, mem, memLatent, attempts, holding, trace>>

\* observer.performBatchAnalysis(), observer.js:114-176
PerformBatchAnalysis ==
    /\ Step
    /\ weights' = BatchWeights(weights, observations, lockFile, now)
    /\ observations' = BatchObservations(observations, lockFile)
    /\ result' = IF BatchThrows(observations)
                 THEN [status |-> "rejected", error |-> "TypeError"]
                 ELSE [status |-> "returned"]
    /\ lastOp' = [op |-> "batch"]
    /\ UNCHANGED <<latentWeights, activeLogs, archive, obsSeq, now>>
    /\ UNCHANGED <<lockVars, call>>

NextBatch ==
    \/ \E o \in BatchInputs : Observe(o[1], o[2])
    \/ HolderAcquires
    \/ HolderReleases
    \/ PerformBatchAnalysis
    \/ Tick

SpecBatch == Init /\ [][NextBatch]_vars

\* the key under which the group <<type, key>> is promoted
InstinctKey(g) == ToLower(IdPrefix(g[1]) \o Sanitize(g[2]))

\* the groups of at least 3 observations, whatever their keys
LargeGroups(obs) ==
    {g \in {<<obs[i].type, GroupKey(obs[i])>> : i \in 1..Len(obs)} :
        Len(Group(obs, g[1], g[2])) >= MIN_GROUP}

\* C27: performBatchAnalysis changes neither the weights nor the
\* observation log when fewer than 5 observations are logged; otherwise the
\* records it writes are exactly those of the groups of at least 3
\* observations, each pinned, and it clears the log if and only if it wrote
\* at least one of them.
C27_BatchAnalysis ==
    [][lastOp'.op = "batch"
       => LET groups == LargeGroups(observations)
              written == {k \in Keys(weights') :
                            k \notin Keys(weights) \/ weights'[k] # weights[k]}
          IN  IF Len(observations) < MIN_OBSERVATIONS
              THEN weights' = weights /\ observations' = observations
              ELSE /\ \A g \in groups :
                        /\ InstinctKey(g) \in Keys(weights')
                        /\ Truthy(weights'[InstinctKey(g)], "pinned")
                        /\ weights'[InstinctKey(g)].refs
                              = [i \in 1..Len(Group(observations, g[1], g[2])) |->
                                    Group(observations, g[1], g[2])[i].id]
                   /\ written \subseteq {InstinctKey(g) : g \in groups}
                   /\ Keys(weights) \subseteq Keys(weights')
                   /\ (observations' = <<>>) <=> (groups # {})]_vars

----------------------------------------------------------------------------
(* recall with the empty query: node skill.js recall, with no further      *)
(* argument, calls memory.recall(''), skill.js:1203-1207.                  *)

EMPTY == <<>>

EmptyQueries == {EMPTY, kab}

NextEmpty ==
    \/ Tick
    \/ \E c \in LogContents : WriteLog(c)
    \/ \E force \in BOOLEAN : Distill(force)
    \/ \E k \in PinKeys : PinExpCmd(k, "rule")
    \/ \E q \in EmptyQueries : Recall(q, FALSE)

SpecEmpty == Init /\ [][NextEmpty]_vars

\* C28: recall with the empty query returns a response whose
\* activated_concepts and pinned_rules are empty, and changes no weight and
\* no recall_count of the hot store.
C28_EmptyQueryRecall ==
    [][(lastOp'.op = "recall" /\ lastOp'.query = EMPTY)
       => /\ result'.status = "returned"
          /\ result'.activated_concepts = {}
          /\ result'.pinned_rules = {}
          /\ Keys(weights') = Keys(weights)
          /\ \A k \in Keys(weights) :
                /\ weights'[k].weight = weights[k].weight
                /\ Field(weights'[k], "recall_count", 0)
                      = Field(weights[k], "recall_count", 0)]_vars

----------------------------------------------------------------------------
(* The timestamps of one record, with the clock read where the code reads  *)
(* it.  Here a unit of now is the resolution of Date.now(): the clock may  *)
(* advance between two reads of the same statement.                        *)

StampKeys == {kab, kcd}

\* the values n successive calls of Date.now() may return from time t on
ClockReads(t, n) ==
    {r \in [1..n -> t..MaxClock] : \A i \in 1..(n - 1) : r[i] <= r[i + 1]}

StampFrame ==
    /\ UNCHANGED <<activeLogs, archive, observations, obsSeq, result>>
    /\ UNCHANGED <<lockVars, call>>

\* distill meets a keyword that has no hot record: lastAccess, lastSeen and
\* firstSeen are read in this order, skill.js:259-268
StampNew(k) ==
    /\ Step
    /\ k \notin Keys(weights)
    /\ \E r \in ClockReads(now, 3) :
          /\ weights' = [x \in Keys(weights) \cup {k} |->
                IF x = k
                THEN Put(Put(NewRecord(0, r[1]), "lastSeen", r[2]),
                         "firstSeen", r[3])
                ELSE weights[x]]
          /\ now' = r[3]
    /\ lastOp' = [op |-> "stamp-new", key |-> k]
    /\ UNCHANGED latentWeights
    /\ StampFrame

\* distill meets a keyword that has a hot record: lastSeen, then
\* lastAccess, skill.js:270-280
StampSeen(k) ==
    /\ Step
    /\ k \in Keys(weights)
    /\ \E r \in ClockReads(now, 2) :
          /\ weights' = [weights EXCEPT ![k] =
                Put(Put(ObserveTerm(weights, k, 0, r[1])[k], "lastSeen", r[1]),
                    "lastAccess", r[2])]
          /\ now' = r[2]
    /\ lastOp' = [op |-> "stamp-seen", key |-> k]
    /\ UNCHANGED latentWeights
    /\ StampFrame

\* recall reinforces a record: lastAccess, skill.js:376-382
StampRecall(k) ==
    /\ Step
    /\ k \in Keys(weights)
    /\ \E r \in ClockReads(now, 1) :
          /\ weights' = [weights EXCEPT ![k] = Reinforce(@, r[1])]
          /\ now' = r[1]
    /\ lastOp' = [op |-> "stamp-recall", key |-> k]
    /\ UNCHANGED latentWeights
    /\ StampFrame

\* deep recall revives a latent record: lastAccess, then revivedAt,
\* skill.js:802-811
StampRevive(k) ==
    /\ Step
    /\ k \in Keys(latentWeights)
    /\ \E r \in ClockReads(now, 2) :
          /\ weights' = [x \in Keys(weights) \cup {k} |->
                IF x = k
                THEN Put(RevivedRecord(latentWeights[k], r[1]), "revivedAt", r[2])
                ELSE weights[x]]
          /\ now' = r[2]
    /\ latentWeights' = Delete(latentWeights, k)
    /\ lastOp' = [op |-> "stamp-revive", key |-> k]
    /\ StampFrame

\* pin-exp: lastAccess, then lastSeen for a new record, lastAccess alone
\* for an existing one, skill.js:1242-1257
StampPin(k) ==
    /\ Step
    /\ \E r \in ClockReads(now, 2) :
          /\ weights' = IF k \in Keys(weights)
                        THEN PinExp(weights, k, "rule", r[1])
                        ELSE [PinExp(weights, k, "rule", r[1]) EXCEPT ![k] =
                                 Put(@, "lastSeen", r[2])]
          /\ now' = IF k \in Keys(weights) THEN r[1] ELSE r[2]
    /\ lastOp' = [op |-> "stamp-pin", key |-> k]
    /\ UNCHANGED latentWeights
    /\ StampFrame

\* memorize: one read for the three fields, skill.js:1298-1311
StampMemorize(k) ==
    /\ Step
    /\ \E r \in ClockReads(now, 1) :
          /\ weights' = Memorize(weights, k, "content", r[1])
          /\ now' = r[1]
    /\ lastOp' = [op |-> "stamp-memorize", key |-> k]
    /\ UNCHANGED latentWeights
    /\ StampFrame

\* createOrUpdateInstinct: lastAccess, then lastSeen, observer.js:263-266
StampInstinct ==
    /\ Step
    /\ \E r \in ClockReads(now, 2) :
          LET k == ToLower(ProcInstinct(1).id) IN
          /\ weights' = [StoreInstinct(weights, ProcInstinct(1), r[1]) EXCEPT ![k] =
                            Put(@, "lastSeen", r[2])]
          /\ now' = r[2]
    /\ lastOp' = [op |-> "stamp-instinct"]
    /\ UNCHANGED latentWeights
    /\ StampFrame

NextClock ==
    \/ \E k \in StampKeys : StampNew(k)
    \/ \E k \in StampKeys : StampSeen(k)
    \/ \E k \in StampKeys : StampRecall(k)
    \/ \E k \in StampKeys : StampRevive(k)
    \/ \E k \in StampKeys : StampPin(k)
    \/ \E k \in StampKeys : StampMemorize(k)
    \/ StampInstinct

SpecClock == InitForgotten /\ [][NextClock]_vars

\* firstSeen <= lastSeen <= lastAccess, the three fields being present
StampsOrdered(r) ==
    /\ {"firstSeen", "lastSeen", "lastAccess"} \subseteq DOMAIN r
    /\ r.firstSeen <= r.lastSeen
    /\ r.lastSeen <= r.lastAccess

\* C29: every hot record satisfies firstSeen <= lastSeen <= lastAccess.
C29_StampsOrdered == \A k \in Keys(weights) : StampsOrdered(weights[k])

\* the same for the records that have the three fields; the records
\* revived by deep recall or created by pin-exp or the Observer lack some
C29_PresentStampsOrdered ==
    \A k \in Keys(weights) :
        {"firstSeen", "lastSeen", "lastAccess"} \subseteq DOMAIN weights[k]
        => StampsOrdered(weights[k])

----------------------------------------------------------------------------
(* recall with queries in either case.  The stored keys are lower case;    *)
(* the activation filter compares them with the query as typed,            *)
(* skill.js:369.                                                           *)

CaseQueries == {kab, kAB, qbig}

NextCase ==
    \/ Tick
    \/ \E c \in LogContents : WriteLog(c)
    \/ \E force \in BOOLEAN : Distill(force)
    \/ \E q \in CaseQueries : Recall(q, FALSE)

SpecCase == Init /\ [][NextCase]_vars

\* the hot keys that match the query when case is ignored
MatchesAnyCase(w, q) ==
    {k \in Keys(w) : \/ Includes(ToLower(q), ToLower(k))
                     \/ Includes(ToLower(k), ToLower(q))}

\* C30: the concepts recall(query) activates and reinforces are exactly
\* the (up to) 5 heaviest hot keys that contain the query or are contained
\* in it, case being ignored; no other key is reinforced.
C30_TopFiveAnyCase ==
    [][lastOp'.op = "recall"
       => LET q   == lastOp'.query
              all == MatchesAnyCase(weights, q)
              top == result'.activated_concepts
          IN  /\ top \subseteq all
              /\ Cardinality(top) =
                    IF Cardinality(all) < TOP_CONCEPTS THEN Cardinality(all)
                    ELSE TOP_CONCEPTS
              /\ \A a \in top : \A b \in all \ top :
                    weights[a].weight >= weights[b].weight
              /\ \A k \in Keys(weights) :
                    /\ k \in Keys(weights')
                    /\ weights'[k].weight =
                          weights[k].weight + IF k \in top THEN LTP_INCREMENT ELSE 0
                    /\ Field(weights'[k], "recall_count", 0) =
                          Field(weights[k], "recall_count", 0)
                              + IF k \in top THEN 1 ELSE 0]_vars

\* the same with the query compared as typed, as the filter does
C30_TopFiveAsTyped ==
    [][lastOp'.op = "recall"
       => LET q   == lastOp'.query
              all == Activated(weights, q)
              top == result'.activated_concepts
          IN  /\ top \subseteq all
              /\ Cardinality(top) =
                    IF Cardinality(all) < TOP_CONCEPTS THEN Cardinality(all)
                    ELSE TOP_CONCEPTS
              /\ \A a \in top : \A b \in all \ top :
                    weights[a].weight >= weights[b].weight
              /\ \A k \in Keys(weights) :
                    /\ k \in Keys(weights')
                    /\ weights'[k].weight =
                          weights[k].weight + IF k \in top THEN LTP_INCREMENT ELSE 0
                    /\ Field(weights'[k], "recall_count", 0) =
                          Field(weights[k], "recall_count", 0)
                              + IF k \in top THEN 1 ELSE 0]_vars

----------------------------------------------------------------------------
(* Claims about the logs a distillation takes, checked under Spec *)

\* the hot store a distillation of the logs of the days S leaves
HotAfterDistill(S) ==
    IF S = {} THEN BatchWeights(weights, observations, lockFile, now)
    ELSE DistillHot(weights, SortedDays(S), [d \in S |-> activeLogs[d]], now)

\* the logs of the days S have moved from the active directory to the
\* archive, the other files of both directories are as they were
Archived(S) ==
    /\ DOMAIN activeLogs' = DOMAIN activeLogs \ S
    /\ \A d \in DOMAIN activeLogs' : activeLogs'[d] = activeLogs[d]
    /\ DOMAIN archive' = DOMAIN archive \cup S
    /\ \A d \in DOMAIN archive' :
          archive'[d] = IF d \in S THEN activeLogs[d] ELSE archive[d]

\* C31: distill without force neither reads nor reinforces from nor
\* archives today's log, which stays in the active directory; with force
\* today's log is processed and archived like every other dated log.
C31_TodayLog ==
    [][(lastOp'.op = "distill" /\ nSteps' = nSteps + 1)
       => LET past == DOMAIN activeLogs \ {now} IN
          IF lastOp'.force
          THEN /\ lastOp'.logs = DOMAIN activeLogs
               /\ weights' = HotAfterDistill(DOMAIN activeLogs)
               /\ Archived(DOMAIN activeLogs)
          ELSE /\ lastOp'.logs = past
               /\ weights' = HotAfterDistill(past)
               /\ Archived(past)]_vars

\* a distillation without force has taken the log of an earlier day and
\* left today's log in the active directory
C31_Witness ==
    /\ lastOp.op = "distill"
    /\ ~lastOp.force
    /\ lastOp.logs # {}
    /\ now \notin lastOp.logs
    /\ now \in DOMAIN activeLogs
    /\ lastOp.logs \subseteq DOMAIN archive

----------------------------------------------------------------------------
(* The local index: local_index_cache.json and the in-memory word index.   *)
(* A file is the record of its content with its mtime, which is the number *)
(* of the step that wrote it; a path is <<directory, file name>>.  Every   *)
(* search builds a new LocalFileSearch, skill.js:585-586, whose cache is   *)
(* the content of the cache file: call.cache.                              *)

MEMORY_DIR == "memory"
ARCHIVE_DIR == "archive"

IndexLogs == {LogSmall, LogBig}

Mtime(file) == Field(file, "mtime", 0)

\* the file at a path
FileAt(p) == IF p[1] = MEMORY_DIR THEN activeLogs[p[2]] ELSE archive[p[2]]

FileExists(p) ==
    IF p[1] = MEMORY_DIR THEN p[2] \in DOMAIN activeLogs
    ELSE p[2] \in DOMAIN archive

\* allFiles: the files of the memory directory, then those of the archive
AllFiles ==
    LET a == SortedDays(DOMAIN activeLogs)
        b == SortedDays(DOMAIN archive)
    IN  [i \in 1..Len(a) |-> <<MEMORY_DIR, a[i]>>]
        \o [i \in 1..Len(b) |-> <<ARCHIVE_DIR, b[i]>>]

\* extractWords: the lower-case words of the text, observer.js:578-602
ExtractWords(file) == {ToLower(file.terms[i]) : i \in 1..Len(file.terms)}

\* the file is read again: no entry under its base name, or another mtime
Stale(cache, p) ==
    p[2] \notin DOMAIN cache \/ cache[p[2]].mtime # Mtime(FileAt(p))

\* the for loop of buildIndexIncremental, observer.js:517-538
RECURSIVE UpdateCache(_, _)
UpdateCache(cache, files) ==
    IF files = <<>> THEN cache
    ELSE LET p == Head(files) IN
         IF Stale(cache, p)
         THEN UpdateCache(Put(cache, p[2],
                              [mtime |-> Mtime(FileAt(p)), path |-> p,
                               words |-> ExtractWords(FileAt(p))]),
                          Tail(files))
         ELSE UpdateCache(cache, Tail(files))

\* the paths that loop reads with readFileSync
RECURSIVE ReadPaths(_, _)
ReadPaths(cache, files) ==
    IF files = <<>> THEN {}
    ELSE LET p == Head(files) IN
         IF Stale(cache, p)
         THEN {p} \cup ReadPaths(Put(cache, p[2],
                                     [mtime |-> Mtime(FileAt(p)), path |-> p,
                                      words |-> ExtractWords(FileAt(p))]),
                                 Tail(files))
         ELSE ReadPaths(cache, Tail(files))

\* rebuildMemoryIndex: word -> the paths of the entries that hold it,
\* observer.js:553-567
RebuildMemoryIndex(cache) ==
    [w \in UNION {cache[n].words : n \in DOMAIN cache} |->
        {cache[n].path : n \in {m \in DOMAIN cache : w \in cache[m].words}}]

\* the content of local_index_cache.json
CacheFile == Field(call, "cache", EmptyObj)

\* buildIndexIncremental as run by one search, observer.js:507-550
BuildIndex ==
    /\ Step
    /\ call' = Put(Put(call, "cache", UpdateCache(CacheFile, AllFiles)),
                   "index", RebuildMemoryIndex(UpdateCache(CacheFile, AllFiles)))
    /\ lastOp' = [op |-> "build-index",
                  read |-> ReadPaths(CacheFile, AllFiles),
                  saved |-> ReadPaths(CacheFile, AllFiles) # {}]
    /\ UNCHANGED <<weights, latentWeights, activeLogs, archive, observations,
                   obsSeq, now, result>>
    /\ UNCHANGED lockVars

\* the agent adds to today's log
AppendLog(c) ==
    /\ Step
    /\ now \in DOMAIN activeLogs
    /\ activeLogs' = [activeLogs EXCEPT ![now] = Put(c, "mtime", nSteps + 1)]
    /\ lastOp' = [op |-> "append-log"]
    /\ UNCHANGED <<weights, latentWeights, archive, observations, obsSeq, now,
                   result>>
    /\ UNCHANGED <<lockVars, call>>

NextIndex ==
    \/ Tick
    \/ \E c \in IndexLogs : WriteLog(Put(c, "mtime", nSteps + 1))
    \/ \E c \in IndexLogs : AppendLog(c)
    \/ \E force \in BOOLEAN : Distill(force)
    \/ BuildIndex

SpecIndex == Init /\ [][NextIndex]_vars

\* C32: after buildIndexIncremental the cache entry of every .md file of
\* the two directories holds the file's current mtime and the words of its
\* current content; a file whose mtime equals the cached mtime is not read
\* again; the cache file is rewritten if and only if an entry changed.
C32_IndexCurrent ==
    [][lastOp'.op = "build-index"
       => /\ \A i \in 1..Len(AllFiles) :
                LET p == AllFiles[i] IN
                /\ p[2] \in DOMAIN call'.cache
                /\ call'.cache[p[2]].mtime = Mtime(FileAt(p))
                /\ call'.cache[p[2]].words = ExtractWords(FileAt(p))
                /\ (p[2] \in DOMAIN CacheFile
                      /\ CacheFile[p[2]].mtime = Mtime(FileAt(p)))
                   => p \notin lastOp'.read
          /\ lastOp'.saved <=> (call'.cache # CacheFile)]_vars

\* no log of the memory directory has the name of a log of the archive
UniqueNames == DOMAIN activeLogs \cap DOMAIN archive = {}

\* the same while no two files have the same base name
C32_IndexCurrentUniqueNames ==
    [][(lastOp'.op = "build-index" /\ UniqueNames)
       => /\ \A i \in 1..Len(AllFiles) :
                LET p == AllFiles[i] IN
                /\ p[2] \in DOMAIN call'.cache
                /\ call'.cache[p[2]].mtime = Mtime(FileAt(p))
                /\ call'.cache[p[2]].words = ExtractWords(FileAt(p))
                /\ (p[2] \in DOMAIN CacheFile
                      /\ CacheFile[p[2]].mtime = Mtime(FileAt(p)))
                   => p \notin lastOp'.read
          /\ lastOp'.saved <=> (call'.cache # CacheFile)]_vars

----------------------------------------------------------------------------
(* recall with its search results.  A result is a record with the file,    *)
(* the content and, for the vector search only, the similarity;            *)
(* similarities and multipliers are in thousandths.                        *)

MAX_WEIGHT_MULTIPLIER == 2000
DEFAULT_SIMILARITY == 500

\* 1 / DECAY_FACTOR
DECAY_FACTOR_INV == 10

\* Math.log(n), in thousandths
LogOf == <<0, 693, 1099, 1386, 1609, 1792, 1946, 2079>>

RankLog(n) == IF n <= Len(LogOf) THEN LogOf[n] ELSE LogOf[Len(LogOf)]

Min(a, b) == IF a <= b THEN a ELSE b

\* calculateKeywordWeight, skill.js:484-509; t - lastSeen is in days
CalculateKeywordWeight(w, keyword, t) ==
    LET k == ToLower(keyword) IN
    IF k \notin Keys(w) THEN 1000
    ELSE LET r     == w[k]
             seen  == Field(r, "lastSeen", Field(r, "lastAccess", t))
             days  == Max(0, t - seen)
             decay == (1000 * DECAY_FACTOR_INV) \div (DECAY_FACTOR_INV + days)
             freq  == IF "count" \in DOMAIN r
                      THEN 1000 + (RankLog(r.count + 1) * decay) \div 1000
                      ELSE 1000 + ((Max(0, r.weight - WeightUnit) \div 1000)
                                      * decay) \div 1000
         IN  Min(freq, MAX_WEIGHT_MULTIPLIER)

\* extractKeywords(query) for a query of one ASCII word, skill.js:139-155
QueryKeywords(query) == {ToLower(query)}

\* matchedKeywordWeight of one result, skill.js:518-527
MatchedKeywordWeight(w, r, query, t) ==
    LET hits == {CalculateKeywordWeight(w, qk, t) :
                    qk \in {x \in QueryKeywords(query) :
                               Includes(ToLower(r.content), x)}}
        over == {h \in hits : h > 1000}
    IN  IF over = {} THEN 1000
        ELSE CHOOSE h \in over : \A g \in over : h >= g

\* result.dynamicWeight and result.finalScore, skill.js:529-530
Scored(w, r, query, t) ==
    LET m == MatchedKeywordWeight(w, r, query, t) IN
    Put(Put(r, "dynamicWeight", m),
        "finalScore", Field(r, "similarity", DEFAULT_SIMILARITY) * m)

\* Array.prototype.sort by descending finalScore, which is stable
RECURSIVE InsertByScore(_, _)
InsertByScore(sorted, r) ==
    IF sorted = <<>> THEN <<r>>
    ELSE IF Head(sorted).finalScore >= r.finalScore
         THEN <<Head(sorted)>> \o InsertByScore(Tail(sorted), r)
         ELSE <<r>> \o sorted

RECURSIVE SortByScore(_)
SortByScore(rs) ==
    IF rs = <<>> THEN <<>>
    ELSE InsertByScore(SortByScore(SubSeq(rs, 1, Len(rs) - 1)), rs[Len(rs)])

\* sortRecallResultsWithDynamicWeights, skill.js:511-535
SortRecallResults(w, results, query, t) ==
    SortByScore([i \in 1..Len(results) |-> Scored(w, results[i], query, t)])

SILICON_EMBED == "silicon-embed"
LOCAL_SEARCH == "local-file-search"

\* what the vector search may resolve to: nothing, or two chunks in
\* descending similarity
VectorLists ==
    {<<>>,
     <<[file |-> 0, content |-> kfg, similarity |-> 600],
       [file |-> 1, content |-> kab, similarity |-> 550]>>}

\* what the local search may resolve to
LocalLists ==
    {<<>>,
     <<[file |-> 0, content |-> kfg, score |-> 2],
       [file |-> 1, content |-> kab, score |-> 1]>>}

\* recall(query, {deep}) with the results of the two searches,
\* skill.js:364-481
RecallSearch(query, deep, vector, local) ==
    /\ Step
    /\ \E top \in TopConcepts(weights, query) :
        LET w1 == InitSynapses(LTP(weights, top, now), query)
            source == IF vector # <<>> THEN SILICON_EMBED ELSE LOCAL_SEARCH
            found  == IF vector # <<>> THEN vector ELSE local
        IN
        \E hebbianTerms \in HebbianAssociations(w1, query) :
          /\ lastOp' = [op |-> "recall", query |-> query, deep |-> deep,
                        source |-> source, found |-> found]
          /\ IF deep
             THEN \E revive \in ToRevive(latentWeights, {query} \cup hebbianTerms,
                                         REVIVE_LIMIT) :
                    /\ weights' = DeepRecallHot(w1, latentWeights, revive, now)
                    /\ latentWeights' = DeepRecallLatent(latentWeights, revive)
                    /\ result' = [status |-> "rejected", error |-> "ReferenceError",
                                  activated_concepts |-> top, revived |-> revive]
                    /\ UNCHANGED <<observations, obsSeq>>
             ELSE /\ weights' = w1
                  /\ result' = [status |-> "returned", source |-> source,
                                activated_concepts |-> top,
                                pinned_rules |-> PinnedRules(w1, query),
                                search_results |->
                                    IF found # <<>>
                                    THEN SortRecallResults(w1, found, query, now)
                                    ELSE found,
                                scoring_mode |-> "semantic_x_frequency_x_decay"]
                  /\ observations' = RecordObservation(observations, obsSeq + 1,
                                         "workflow", SilentData(query))
                  /\ obsSeq' = obsSeq + 1
                  /\ UNCHANGED latentWeights
    /\ UNCHANGED <<activeLogs, archive, now>>
    /\ UNCHANGED <<lockVars, call>>

NextSearch ==
    \/ Tick
    \/ \E c \in LogContents : WriteLog(c)
    \/ \E force \in BOOLEAN : Distill(force)
    \/ \E q \in Queries, deep \in BOOLEAN :
          \E v \in VectorLists, l \in LocalLists : RecallSearch(q, deep, v, l)

SpecSearch == Init /\ [][NextSearch]_vars

\* the files of a list of results, in order
FilesOf(rs) == [i \in 1..Len(rs) |-> rs[i].file]

C33_RerankWhenNotDeep ==
    [][(lastOp'.op = "recall" /\ ~lastOp'.deep)
       => /\ result'.status = "returned"
          /\ FilesOf(result'.search_results) =
                FilesOf(SortRecallResults(weights', lastOp'.found,
                                          lastOp'.query, now))]_vars

----------------------------------------------------------------------------
(* The incremental vector index at the end of a distillation, checked      *)
(* under SpecDistill *)

\* a distillation that processed logs has just returned
DistillCompleted ==
    /\ Distilling
    /\ pc[D] = "done"
    /\ lastOp.op = "distill-step"
    /\ lastOp.phase = "save"

\* C34: at the end of a distillation that processed logs, if today's log
\* exists and the embedder has an API key, incrementalIndex is called on
\* today's log; distill returns normally whatever that call does.
C34_IncrementalIndex ==
    DistillCompleted
    => /\ result.status = "returned"
       /\ (IsAvailable(trace[D].apiKey) /\ now \in DOMAIN activeLogs)
            => trace[D].embedder.indexed = {now}

----------------------------------------------------------------------------
(* Claims about the keys of the two stores *)

----------------------------------------------------------------------------
(* the hot store after applyLTD *)

\* the records the step has put into latent storage
DemotedInStep ==
    {k \in Keys(latentWeights') :
        k \notin Keys(latentWeights) \/ latentWeights'[k] # latentWeights[k]}

LTDPassed ==
    \/ lastOp'.op = "forget" /\ nSteps' = nSteps + 1
    \/ /\ lastOp'.op = "distill" /\ nSteps' = nSteps + 1
       /\ lastOp'.logs # {} /\ result'.status = "returned"

----------------------------------------------------------------------------
(* The Observer's createOrUpdateInstinct beside a CLI forget whose save is *)
(* seen as the two effects of fs.writeFileSync: the file is opened with    *)
(* flag 'w', which truncates it, and then receives the text.  Process D    *)
(* is the Observer; every other process runs the CLI command.  The file    *)
(* system calls succeed.  The store is the worn one, of which a forget     *)
(* keeps a record.                                                         *)

\* createOrUpdateInstinct is called, observer.js:247; the trace keeps the
\* content of synapse_weights.json at that moment
InstinctBegin(p) ==
    /\ pc[p] = "idle"
    /\ cmd' = [cmd EXCEPT ![p] = "instinct"]
    /\ pc' = [pc EXCEPT ![p] = "acquire"]
    /\ trace' = [trace EXCEPT ![p] = Put(NewTrace, "before", weights)]
    /\ UNCHANGED <<weights, latentWeights, lockFile, mem, memLatent, attempts,
                   holding>>
    /\ StoreUnchanged

\* new SynapseMemory(), skill.js:198-199: JSON.parse of a file that holds
\* a part of its text throws and the process ends
ConstructOrThrow(p) ==
    IF Loadable THEN Construct(p)
    ELSE /\ pc[p] = "construct"
         /\ pc' = [pc EXCEPT ![p] = "done"]
         /\ trace' = [trace EXCEPT ![p].ret = "SyntaxError"]
         /\ UNCHANGED <<weights, latentWeights, lockFile, cmd, mem, memLatent,
                        attempts, holding>>
         /\ StoreUnchanged

\* fs.writeFileSync(WEIGHTS_FILE, ...) opens the file and truncates it,
\* skill.js:209-211
SaveOpen(p) ==
    /\ pc[p] = "save"
    /\ weights' = MALFORMED
    /\ pc' = [pc EXCEPT ![p] = "saving"]
    /\ UNCHANGED <<latentWeights, lockFile, cmd, mem, memLatent, attempts,
                   holding, trace>>
    /\ StoreUnchanged

\* fs.writeFileSync(WEIGHTS_FILE, ...) has written the text, skill.js:209-211
SaveWrite(p) ==
    /\ pc[p] = "saving"
    /\ weights' = mem[p]
    /\ trace' = [trace EXCEPT ![p].wrote = TRUE, ![p].ret = "true"]
    /\ pc' = [pc EXCEPT ![p] = "done"]
    /\ UNCHANGED <<latentWeights, lockFile, cmd, mem, memLatent, attempts, holding>>
    /\ StoreUnchanged

NextTorn ==
    \/ InstinctBegin(D)
    \/ AcquireLockCheck(D)
    \/ AcquireLockWrite(D, TRUE)
    \/ ReadWeightsFile(D, ~IsMalformed(weights))
    \/ WriteWeightsFile(D, TRUE)
    \/ ReleaseLockCheck(D)
    \/ ReleaseLockUnlink(D)
    \/ \E p \in Procs \ {D} :
          \/ Start(p, "forget")
          \/ ConstructOrThrow(p)
          \/ ApplyLTDStep(p)
          \/ SaveOpen(p)
          \/ SaveWrite(p)

SpecTorn == InitWorn /\ [][NextTorn]_vars

\* the step in which createOrUpdateInstinct writes synapse_weights.json
InstinctWritten ==
    /\ pc[D] = "write"
    /\ pc'[D] = "release"
    /\ trace'[D].wrote

\* C37: createOrUpdateInstinct changes only the record keyed by the
\* lowercased instinct id: every other record that was in
\* synapse_weights.json before the call, and is in it when the call writes,
\* is in the file after the write, as it was before the call or before the
\* write, also when another process writes the file while the call reads it.
C37_OtherRecordsKept ==
    [][InstinctWritten
       => \A k \in Keys(trace[D].before) \ {ToLower(ProcInstinct(D).id)} :
             (~IsMalformed(trace[D].before) /\ k \in Keys(weights))
             => /\ k \in Keys(weights')
                /\ \/ weights'[k] = trace[D].before[k]
                   \/ weights'[k] = weights[k]]_vars

----------------------------------------------------------------------------
(* performBatchAnalysis beside a host that records observations.  Process  *)
(* D runs the analysis; each of its reads and writes of observations.jsonl *)
(* is a step, and the host's appendFileSync may fall between two of them.  *)

AppendInputs ==
    {<<"error_resolution", [errorType |-> ket]>>,
     <<"tool_preference", [taskType |-> kab]>>}

AppendFrame ==
    UNCHANGED <<latentWeights, activeLogs, archive, obsSeq, now, nSteps,
                lockFile, cmd, mem, memLatent, attempts, holding, call>>

\* getObservationCount() and the early return, observer.js:114-123
BatchCount ==
    /\ pc[D] = "idle"
    /\ pc' = [pc EXCEPT ![D] = IF BatchRuns(observations) THEN "read"
                               ELSE "idle"]
    /\ lastOp' = [op |-> "batch-count", count |-> Len(observations)]
    /\ result' = IF BatchRuns(observations) THEN [status |-> "pending"]
                 ELSE [status |-> "returned"]
    /\ UNCHANGED <<weights, observations, trace>>
    /\ AppendFrame

\* fs.readFileSync(this.observationsFile) and the parse, observer.js:125-140
BatchRead ==
    /\ pc[D] = "read"
    /\ trace' = [trace EXCEPT ![D] = Put(@, "read", observations)]
    /\ pc' = [pc EXCEPT ![D] = "promote"]
    /\ lastOp' = [op |-> "batch-read"]
    /\ UNCHANGED <<weights, observations, result>>
    /\ AppendFrame

\* the grouping and the promotions of the observations that were read,
\* observer.js:142-169
BatchPromote ==
    LET obs == trace[D].read IN
    /\ pc[D] = "promote"
    /\ weights' = BatchWeights(weights, obs, lockFile, now)
    /\ pc' = [pc EXCEPT ![D] = IF InstinctCreated(obs, lockFile) THEN "clear"
                               ELSE "idle"]
    /\ result' = IF BatchThrows(obs)
                 THEN [status |-> "rejected", error |-> "TypeError"]
                 ELSE IF InstinctCreated(obs, lockFile)
                      THEN [status |-> "pending"]
                      ELSE [status |-> "returned"]
    /\ lastOp' = [op |-> "batch-promote"]
    /\ UNCHANGED <<observations, trace>>
    /\ AppendFrame

\* this.clearObservations(): fs.unlinkSync, observer.js:171-173, 291-299
BatchClear ==
    /\ pc[D] = "clear"
    /\ observations' = <<>>
    /\ pc' = [pc EXCEPT ![D] = "idle"]
    /\ result' = [status |-> "returned"]
    /\ lastOp' = [op |-> "batch-clear"]
    /\ UNCHANGED <<weights, trace>>
    /\ AppendFrame

NextAppend ==
    \/ \E o \in AppendInputs : Observe(o[1], o[2])
    \/ BatchCount
    \/ BatchRead
    \/ BatchPromote
    \/ BatchClear

SpecAppend == Init /\ [][NextAppend]_vars

\* the ids of the observations of a file
ObservationIds(obs) == {obs[i].id : i \in 1..Len(obs)}

\* C38: an observation appended by recordObservation while
\* performBatchAnalysis runs is never lost: when the analysis clears the
\* log, every observation of the file is among those the analysis read or
\* is still in observations.jsonl afterwards.
C38_NoObservationLost ==
    [][(pc[D] = "clear" /\ lastOp'.op = "batch-clear")
       => ObservationIds(observations)
             \subseteq ObservationIds(trace[D].read)
                       \cup ObservationIds(observations')]_vars

----------------------------------------------------------------------------
(* Local searches and distillations on a fresh installation: both          *)
(* directories are empty at first.                                         *)

SpecPaths == InitFresh /\ [][NextIndex]_vars

\* the in-memory word index of the last search
WordIndex == Field(call, "index", EmptyObj)

\* C39: after a local search, whatever searches and distillations came
\* before it, every path of the local index cache and of the in-memory
\* word index is the path of a file that exists, so that the snippet of a
\* result is read from the file's current location.
C39_PathsExist ==
    lastOp.op = "build-index"
    => /\ \A n \in DOMAIN CacheFile : FileExists(CacheFile[n].path)
       /\ \A w \in DOMAIN WordIndex : \A p \in WordIndex[w] : FileExists(p)

====
